---------------------------- MODULE Spec2Model ----------------------------
(***************************************************************************)
(* Cleaning pipeline (src/src/clean.py) and KPI aggregation                *)
(* (src/src/kpis.py) of the analyst-reporting suite.                       *)
(*                                                                         *)
(* A table (pandas DataFrame) is a record                                  *)
(*     [columns : Seq(Name), data : Seq(Seq(Cell)), nrows : Nat]           *)
(* where data[i] is the column under columns[i].  Text (column names and   *)
(* string cells) is a sequence of one-character strings, so that strip,    *)
(* lower, the regular expressions of _snake and the numeric / date parsers *)
(* are computed on the characters.                                         *)
(*                                                                         *)
(* A cell is [k, n, f, s]:                                                 *)
(*     k = "null"  None / NaN / NaT / pd.NA                                *)
(*     k = "num"   the integer n                                           *)
(*     k = "str"   the text s                                              *)
(*     k = "date"  the timestamp n days after 1970-01-01 plus f ns         *)
(* Modelled domain: numbers are integers; a raw date column is either      *)
(* numeric or text (as pandas.read_csv produces); date text is ISO         *)
(* YYYY-MM-DD, a serial number in text form, or text no parser accepts.    *)
(***************************************************************************)
EXTENDS Integers, Sequences, FiniteSets, TLC

\* ------------------------------------------------------------------ bounds
\* Rows of a raw table entering clean().
MaxRows == 2
\* Rows of a fact table entering build_tables() directly.
MaxFactRows == 3

\* -------------------------------------------------------------- characters
LowerAlpha == <<"a","b","c","d","e","f","g","h","i","j","k","l","m",
                "n","o","p","q","r","s","t","u","v","w","x","y","z">>
UpperAlpha == <<"A","B","C","D","E","F","G","H","I","J","K","L","M",
                "N","O","P","Q","R","S","T","U","V","W","X","Y","Z">>
DigitChars == <<"0","1","2","3","4","5","6","7","8","9">>

IsUpper(c) == \E i \in 1..Len(UpperAlpha) : UpperAlpha[i] = c
IsLower(c) == \E i \in 1..Len(LowerAlpha) : LowerAlpha[i] = c
IsDigit(c) == \E i \in 1..Len(DigitChars) : DigitChars[i] = c
DigitVal(c) == (CHOOSE i \in 1..Len(DigitChars) : DigitChars[i] = c) - 1

\* str.lower() on one character
LowerChar(c) ==
    IF IsUpper(c)
    THEN LowerAlpha[CHOOSE i \in 1..Len(UpperAlpha) : UpperAlpha[i] = c]
    ELSE c

\* the regular expression class \w
WordChars == {UpperAlpha[i] : i \in 1..Len(UpperAlpha)}
             \cup {LowerAlpha[i] : i \in 1..Len(LowerAlpha)}
             \cup {DigitChars[i] : i \in 1..Len(DigitChars)} \cup {"_"}
IsWordChar(c) == c \in WordChars
\* what str.strip() removes
SpaceChars == {" ", "\t", "\n", "\r"}

\* Code-point order of the characters the model uses (ASCII).
AsciiOrder == <<"\t", "\n", "\r", " ", "$", "(", ")", "-", ".", "/">> \o DigitChars
              \o UpperAlpha \o <<"_">> \o LowerAlpha
Ord(c) == CHOOSE i \in 1..Len(AsciiOrder) : AsciiOrder[i] = c

\* s without its longest prefix (suffix) of characters c with
\* (c \in cs) = drop
RECURSIVE LStrip(_, _, _)
LStrip(s, cs, drop) ==
    IF s # <<>> /\ ((Head(s) \in cs) = drop)
    THEN LStrip(Tail(s), cs, drop)
    ELSE s

RECURSIVE RStrip(_, _, _)
RStrip(s, cs, drop) ==
    IF s # <<>> /\ ((s[Len(s)] \in cs) = drop)
    THEN RStrip(SubSeq(s, 1, Len(s) - 1), cs, drop)
    ELSE s

\* str.strip()
StripSpace(s) == RStrip(LStrip(s, SpaceChars, TRUE), SpaceChars, TRUE)

\* str.lower()
LowerStr(s) == [i \in 1..Len(s) |-> LowerChar(s[i])]

\* lexicographic code-point order of two texts: a < b
RECURSIVE StrLess(_, _)
StrLess(a, b) ==
    IF b = <<>> THEN FALSE
    ELSE IF a = <<>> THEN TRUE
    ELSE IF Head(a) = Head(b) THEN StrLess(Tail(a), Tail(b))
    ELSE Ord(Head(a)) < Ord(Head(b))

\* ------------------------------------------------------------------ _snake
\* re.sub(r"[^\w]+", "_", s): every maximal run of non-word characters
\* becomes one underscore.
RECURSIVE SubNonWord(_)
SubNonWord(s) ==
    IF s = <<>> THEN <<>>
    ELSE IF IsWordChar(Head(s)) THEN <<Head(s)>> \o SubNonWord(Tail(s))
    ELSE <<"_">> \o SubNonWord(LStrip(Tail(s), WordChars, FALSE))

\* re.sub(r"_+", "_", s): every run of underscores becomes one underscore.
RECURSIVE SubUnderscores(_)
SubUnderscores(s) ==
    IF s = <<>> THEN <<>>
    ELSE IF Head(s) = "_"
         THEN <<"_">> \o SubUnderscores(LStrip(Tail(s), {"_"}, TRUE))
         ELSE <<Head(s)>> \o SubUnderscores(Tail(s))

\* (variant: the underscores are stripped before the substitutions)
snake_StripFirst(s) ==
    LowerStr(SubUnderscores(SubNonWord(
        RStrip(LStrip(StripSpace(s), {"_"}, TRUE), {"_"}, TRUE))))

snake(s) ==
    LET s1 == StripSpace(s)
        s2 == SubNonWord(s1)
        s3 == SubUnderscores(s2)
        s4 == LowerStr(s3)
    IN  RStrip(LStrip(s4, {"_"}, TRUE), {"_"}, TRUE)

\* ------------------------------------------------------------------- cells
Null    == [k |-> "null", n |-> 0, f |-> 0, s |-> <<>>]
Num(x)  == [k |-> "num",  n |-> x, f |-> 0, s |-> <<>>]
Str(t)  == [k |-> "str",  n |-> 0, f |-> 0, s |-> t]
Date(d, ns) == [k |-> "date", n |-> d, f |-> ns, s |-> <<>>]

\* Series.isna() on one value
IsNa(c) == c.k = "null"

\* ------------------------------------------------------------------ tables
Table(cols, data, n) == [columns |-> cols, data |-> data, nrows |-> n]

HasCol(df, name) == \E i \in 1..Len(df.columns) : df.columns[i] = name
\* positions of the columns called `name`, left to right
ColPositions(df, name) == {i \in 1..Len(df.columns) : df.columns[i] = name}
ColIndex(df, name) == CHOOSE i \in ColPositions(df, name) :
                         \A j \in ColPositions(df, name) : i <= j
\* df[name] for a name that labels one column
Col(df, name) == df.data[ColIndex(df, name)]

\* (variant: the duplicate test is skipped)
HasDuplicateColumns_Unchecked(df) == FALSE

\* Index.duplicated().any()
HasDuplicateColumns(df) ==
    \E i, j \in 1..Len(df.columns) : i < j /\ df.columns[i] = df.columns[j]

\* df[name] = values: replaces the column in place, or appends a new one
SetCol(df, name, values) ==
    IF HasCol(df, name)
    THEN [df EXCEPT !.data[ColIndex(df, name)] = values]
    ELSE [df EXCEPT !.columns = Append(@, name), !.data = Append(@, values)]


\* --------------------------------------------------------- canonical names
N_date == <<"d","a","t","e">>
N_revenue == <<"r","e","v","e","n","u","e">>
N_cost == <<"c","o","s","t">>
N_units == <<"u","n","i","t","s">>
N_region == <<"r","e","g","i","o","n">>
N_product == <<"p","r","o","d","u","c","t">>

\* REQUIRED = ["date", "revenue"]
REQUIRED == <<N_date, N_revenue>>

\* DEFAULT_ALIASES, as the set of its (key, value) items
DEFAULT_ALIASES ==
    {
       <<<<"d","a","t","e">>, N_date>>,
       <<<<"m","o","n","t","h">>, N_date>>,
       <<<<"p","e","r","i","o","d">>, N_date>>,
       <<<<"t","r","a","n","s","a","c","t","i","o","n","_","d","a","t","e">>, N_date>>,
       <<<<"o","r","d","e","r","_","d","a","t","e">>, N_date>>,
       <<<<"r","e","v","e","n","u","e">>, N_revenue>>,
       <<<<"s","a","l","e","s">>, N_revenue>>,
       <<<<"t","o","t","a","l","_","s","a","l","e","s">>, N_revenue>>,
       <<<<"a","m","o","u","n","t">>, N_revenue>>,
       <<<<"n","e","t","_","s","a","l","e","s">>, N_revenue>>,
       <<<<"c","o","s","t">>, N_cost>>,
       <<<<"c","o","g","s">>, N_cost>>,
       <<<<"t","o","t","a","l","_","c","o","s","t">>, N_cost>>,
       <<<<"u","n","i","t","s">>, N_units>>,
       <<<<"q","t","y">>, N_units>>,
       <<<<"q","u","a","n","t","i","t","y">>, N_units>>,
       <<<<"r","e","g","i","o","n">>, N_region>>,
       <<<<"s","t","a","t","e">>, N_region>>,
       <<<<"p","r","o","d","u","c","t">>, N_product>>,
       <<<<"s","k","u">>, N_product>>,
       <<<<"c","a","t","e","g","o","r","y">>, N_product>>
    }

\* clean.DEFAULT_ALIASES, the module-level dict, as it is now
VARIABLE default_aliases

\* An alias argument: given = FALSE is None; map is the dict's items.
NoAliases == [given |-> FALSE, map |-> {}]
AliasDict(items) == [given |-> TRUE, map |-> items]

AliasKeys(map) == {kv[1] : kv \in map}
AliasValue(map, key) == (CHOOSE kv \in map : kv[1] = key)[2]

\* ------------------------------------------------------ Schema Normalizer
standardise_columns(df) ==
    [df EXCEPT !.columns = [i \in 1..Len(df.columns) |-> snake(df.columns[i])]]

\* (variant: the caller's table extends the built-in table)
EffectiveAliases_Extending(aliases) ==
    IF aliases.given /\ aliases.map # {}
    THEN aliases.map \cup {kv \in default_aliases : kv[1] \notin AliasKeys(aliases.map)}
    ELSE default_aliases

\* aliases = aliases or DEFAULT_ALIASES: None and the empty dict are falsy,
\* and the name DEFAULT_ALIASES is looked up in the module when the line runs
EffectiveAliases(aliases) ==
    IF aliases.given /\ aliases.map # {} THEN aliases.map ELSE default_aliases

\* (variant: the caller's entries are stored in the module-level dict)
ModuleAliasesAfter_Updated(defaults, aliases) ==
    aliases.map \cup {kv \in defaults : kv[1] \notin AliasKeys(aliases.map)}

\* The module-level dict after apply_aliases(df, aliases): lines 62-68 bind
\* the local name and read the dict, nothing is stored into it.
ModuleAliasesAfter(defaults, aliases) == defaults

\* ren = {c: aliases[c] for c in df.columns if c in aliases};
\* df.rename(columns=ren)
RenameColumns(df, map) ==
    [df EXCEPT !.columns =
        [i \in 1..Len(df.columns) |->
            IF df.columns[i] \in AliasKeys(map)
            THEN AliasValue(map, df.columns[i])
            ELSE df.columns[i]]]

\* df[label]: the columns carrying the label.  With a label that occurs
\* once this is the Series; with a duplicated label pandas returns the
\* frame of all the columns carrying it.
SelectLabel(df, label) ==
    LET pos == ColPositions(df, label)
        ix  == CHOOSE q \in [1..Cardinality(pos) -> pos] :
                   \A a, b \in 1..Cardinality(pos) : a < b => q[a] < q[b]
    IN  [i \in 1..Cardinality(pos) |-> df.data[ix[i]]]

\* The merge branch of apply_aliases (lines 73-86), run over the unique
\* labels left to right.  cols holds the label once per occurrence, so
\* cols[0] and every k are the same label: s = df[cols[0]] and df[k] are
\* both the frame of all duplicates, and neither combine_first (which asks
\* each column for a Series) nor out[col] = s (a frame of several columns
\* assigned to one column) accepts that: the call raises.
\* Result: [raised, df].
MergeDuplicates(df) ==
    LET width(label) == Len(SelectLabel(df, label))
        raises == \E i \in 1..Len(df.columns) : width(df.columns[i]) > 1
    IN  [raised |-> raises, df |-> df]

\* apply_aliases from line 64 on, with the alias table in effect: [raised, df]
ApplyAliasMap(df, map) ==
    LET renamed == RenameColumns(df, map)
    IN  IF HasDuplicateColumns(renamed)
        THEN MergeDuplicates(renamed)
        ELSE [raised |-> FALSE, df |-> renamed]

\* apply_aliases(df, aliases): [raised, df]
apply_aliases(df, aliases) == ApplyAliasMap(df, EffectiveAliases(aliases))

\* (variant: the stage assigns to the table it was given)
CallerTableAfter_InPlace(given, work) == work

\* The caller's table after a stage that starts with df = df.copy()
\* (clean.py lines 55, 61 and 92; kpis.py line 7): `given` is the table
\* passed in, `work` the stage's own table after its assignments; every
\* assignment of the stage goes to the copy.
CallerTableAfter(given, work) == given


\* ------------------------------------------------------- calendar dates
\* Days from 1970-01-01 to the proleptic Gregorian date y-m-d, and back
\* (the day arithmetic behind pandas Timestamps and Periods).
DaysFromCivil(y, m, d) ==
    LET yy  == IF m <= 2 THEN y - 1 ELSE y
        era == yy \div 400
        yoe == yy - era * 400
        mp  == IF m > 2 THEN m - 3 ELSE m + 9
        doy == (153 * mp + 2) \div 5 + d - 1
        doe == yoe * 365 + yoe \div 4 - yoe \div 100 + doy
    IN  era * 146097 + doe - 719468

CivilFromDays(z0) ==
    LET z   == z0 + 719468
        era == z \div 146097
        doe == z - era * 146097
        yoe == (doe - doe \div 1460 + doe \div 36524 - doe \div 146096) \div 365
        doy == doe - (365 * yoe + yoe \div 4 - yoe \div 100)
        mp  == (5 * doy + 2) \div 153
        d   == doy - (153 * mp + 2) \div 5 + 1
        m   == IF mp < 10 THEN mp + 3 ELSE mp - 9
        y   == yoe + era * 400 + (IF m <= 2 THEN 1 ELSE 0)
    IN  [y |-> y, m |-> m, d |-> d]

IsLeap(y) == (y % 4 = 0 /\ y % 100 # 0) \/ y % 400 = 0
DaysInMonth(y, m) ==
    IF m = 2 THEN (IF IsLeap(y) THEN 29 ELSE 28)
    ELSE IF m \in {4, 6, 9, 11} THEN 30 ELSE 31

\* ------------------------------------------------------------ text <-> int
AllDigits(s) == \A i \in 1..Len(s) : IsDigit(s[i])

RECURSIVE DigitsValue(_)
DigitsValue(s) ==
    IF s = <<>> THEN 0
    ELSE 10 * DigitsValue(SubSeq(s, 1, Len(s) - 1)) + DigitVal(s[Len(s)])

RECURSIVE NatDigits(_)
NatDigits(n) ==
    IF n < 10 THEN <<DigitChars[n + 1]>>
    ELSE NatDigits(n \div 10) \o <<DigitChars[(n % 10) + 1]>>

\* str(n) of an int
FormatInt(n) == IF n < 0 THEN <<"-">> \o NatDigits(0 - n) ELSE NatDigits(n)

\* pd.to_numeric(..., errors="coerce") on one text: an optional sign, digits
\* and an optional fraction of zeros give the integer; a text that is not a
\* number gives NaN.  (No modelled text has a non-zero fraction.)
ParseNumber(s) ==
    LET neg   == s # <<>> /\ Head(s) = "-"
        body  == IF s # <<>> /\ Head(s) \in {"-", "+"} THEN Tail(s) ELSE s
        frac  == LStrip(body, {DigitChars[i] : i \in 1..Len(DigitChars)}, TRUE)
        whole == SubSeq(body, 1, Len(body) - Len(frac))
        fracOk == frac = <<>>
                  \/ (Head(frac) = "." /\ \A i \in 2..Len(frac) : frac[i] = "0")
    IN  IF whole # <<>> /\ fracOk
        THEN Num(IF neg THEN 0 - DigitsValue(whole) ELSE DigitsValue(whole))
        ELSE Null

\* Mutant: a value that is not a number becomes 0 instead of NaN
ToNumeric_ZeroOnError(c) ==
    CASE c.k = "num" -> c
      [] c.k = "str" -> (IF ParseNumber(c.s).k = "num" THEN ParseNumber(c.s) ELSE Num(0))
      [] OTHER       -> Null

\* pd.to_numeric(series, errors="coerce") on one value
ToNumeric(c) ==
    CASE c.k = "num" -> c
      [] c.k = "str" -> ParseNumber(c.s)
      [] OTHER       -> Null

\* pd.to_datetime(..., errors="coerce") on one text: an ISO YYYY-MM-DD date
\* is that day at midnight; the other modelled texts are no calendar date
\* and give NaT.
ParseDate(s) ==
    IF /\ Len(s) = 10
       /\ s[5] = "-" /\ s[8] = "-"
       /\ AllDigits(SubSeq(s, 1, 4)) /\ AllDigits(SubSeq(s, 6, 7))
       /\ AllDigits(SubSeq(s, 9, 10))
    THEN LET y == DigitsValue(SubSeq(s, 1, 4))
             m == DigitsValue(SubSeq(s, 6, 7))
             d == DigitsValue(SubSeq(s, 9, 10))
         IN  IF m \in 1..12 /\ d >= 1 /\ d <= DaysInMonth(y, m)
             THEN Date(DaysFromCivil(y, m, d), 0)
             ELSE Null
    ELSE Null

\* pd.to_datetime(series, errors="coerce") on one value.  A number is taken
\* as nanoseconds since 1970-01-01 (the default unit); every modelled number
\* is below the 86 400 000 000 000 ns of one day, so it falls on day 0.
ToDatetime(c) ==
    CASE c.k = "date" -> c
      [] c.k = "str"  -> ParseDate(c.s)
      [] c.k = "num"  -> Date(0, c.n)
      [] OTHER        -> Null

\* ------------------------------------------------------------ Type Coercer
\* num.between(20000, 60000): both ends inclusive; NaN is not between.
ExcelSerialMin == 20000
ExcelSerialMax == 60000
\* Mutant: the range test with both ends exclusive
ExcelLike_Exclusive(num) ==
    num.k = "num" /\ ExcelSerialMin < num.n /\ num.n < ExcelSerialMax

ExcelLike(num) ==
    num.k = "num" /\ ExcelSerialMin <= num.n /\ num.n <= ExcelSerialMax

\* origin="1899-12-30"
ExcelOrigin == DaysFromCivil(1899, 12, 30)

\* pd.to_datetime(num, unit="D", origin="1899-12-30")
FromExcelSerial(num) == Date(ExcelOrigin + num.n, 0)

\* lines 95-114: general parse, then the serial rows overwritten
CoerceDateColumn(s) ==
    [i \in 1..Len(s) |->
        LET parsed == ToDatetime(s[i])
            num    == ToNumeric(s[i])
        IN  IF ExcelLike(num) THEN FromExcelSerial(num) ELSE parsed]

\* A column has dtype object when it holds text.
IsObjectColumn(col) == \E i \in 1..Len(col) : col[i].k = "str"

\* Series.astype(str) on one value of an object column
AsStr(c) ==
    CASE c.k = "str"  -> c.s
      [] c.k = "num"  -> FormatInt(c.n)
      [] OTHER        -> <<"n","a","n">>

\* the list passed to isin on line 120
NullMarkers == {<<>>, <<"n","a","n">>, <<"N","o","n","e">>, <<"N","U","L","L">>, <<"n","u","l","l">>}

\* Mutant: the null markers tested without trimming first
CleanString_NoStrip(c) ==
    IF AsStr(c) \in NullMarkers THEN Null ELSE Str(AsStr(c))

\* lines 119-120 on one value
CleanString(c) ==
    LET t == StripSpace(AsStr(c))
    IN  IF t \in NullMarkers THEN Null ELSE Str(t)

CleanStringColumn(col) == [i \in 1..Len(col) |-> CleanString(col[i])]
ToNumericColumn(col) == [i \in 1..Len(col) |-> ToNumeric(col[i])]

NumericNames == {N_revenue, N_cost, N_units}

coerce_types(df) ==
    LET d1 == IF HasCol(df, N_date)
              THEN SetCol(df, N_date, CoerceDateColumn(Col(df, N_date)))
              ELSE df
        d2 == [d1 EXCEPT !.data =
                 [i \in 1..Len(d1.columns) |->
                    IF d1.columns[i] # N_date /\ IsObjectColumn(d1.data[i])
                    THEN CleanStringColumn(d1.data[i])
                    ELSE d1.data[i]]]
        d3 == [d2 EXCEPT !.data =
                 [i \in 1..Len(d2.columns) |->
                    IF d2.columns[i] \in NumericNames
                    THEN ToNumericColumn(d2.data[i])
                    ELSE d2.data[i]]]
    IN  d3

\* --------------------------------------------------------------- Validator
\* The three warning texts, with the value formatted into each.
MissingColumn(r) ==
    [msg |-> "Missing required column: '{r}'", r |-> r, bad |-> 0]
MostlyMissing(r) ==
    [msg |-> "Column '{r}' has >50% missing values", r |-> r, bad |-> 0]
UnparseableDates(bad) ==
    [msg |-> "Rows with unparseable dates: {bad}", r |-> <<>>, bad |-> bad]

\* Series.isna().sum()
NaCount(col) == Cardinality({i \in 1..Len(col) : IsNa(col[i])})
\* Mutant: the threshold test written with >= instead of >
NaMeanAtLeastHalf(col) == Len(col) > 0 /\ 2 * NaCount(col) >= Len(col)

\* Series.isna().mean() > 0.5; the mean of an empty series is NaN, and
\* NaN > 0.5 is False
NaMeanOverHalf(col) == Len(col) > 0 /\ 2 * NaCount(col) > Len(col)

RECURSIVE RequiredWarnings(_, _)
RequiredWarnings(df, rs) ==
    IF rs = <<>> THEN <<>>
    ELSE (IF ~HasCol(df, Head(rs)) THEN <<MissingColumn(Head(rs))>>
          ELSE IF NaMeanOverHalf(Col(df, Head(rs)))
               THEN <<MostlyMissing(Head(rs))>>
               ELSE <<>>)
         \o RequiredWarnings(df, Tail(rs))

\* Mutant: validate without its unparseable-dates check
validate_NoDateCheck(df) == RequiredWarnings(df, REQUIRED)

validate(df) ==
    RequiredWarnings(df, REQUIRED)
    \o (IF HasCol(df, N_date) /\ NaCount(Col(df, N_date)) > 0
        THEN <<UnparseableDates(NaCount(Col(df, N_date)))>>
        ELSE <<>>)


\* ------------------------------------------------------------- KPI numbers
\* A float of the KPI tables: k = "null" (NaN / pd.NA), "inf", "ninf", or
\* "fin" with the exact value num / den (den > 0, lowest terms).  The sign
\* of a zero is not kept: a division by zero takes its sign from the
\* numerator.
Abs(x) == IF x < 0 THEN 0 - x ELSE x

RECURSIVE GCD(_, _)
GCD(a, b) == IF b = 0 THEN a ELSE GCD(b, a % b)

FNull == [k |-> "null", num |-> 0, den |-> 1]
FInf  == [k |-> "inf",  num |-> 0, den |-> 1]
FNInf == [k |-> "ninf", num |-> 0, den |-> 1]
Fin(n, d) ==
    LET g == GCD(Abs(n), Abs(d))
        sgn == IF d < 0 THEN 0 - 1 ELSE 1
    IN  [k |-> "fin", num |-> (sgn * n) \div g, den |-> (sgn * d) \div g]
FInt(n) == [k |-> "fin", num |-> n, den |-> 1]

FIsNull(a) == a.k = "null"
FIsInfinite(a) == a.k \in {"inf", "ninf"}
FSign(a) == CASE a.k = "inf" -> 1
              [] a.k = "ninf" -> 0 - 1
              [] a.k = "fin" -> (IF a.num > 0 THEN 1 ELSE IF a.num < 0 THEN 0 - 1 ELSE 0)
              [] OTHER -> 0
FSigned(sign) == IF sign < 0 THEN FNInf ELSE FInf
FNeg(a) == CASE a.k = "inf" -> FNInf
             [] a.k = "ninf" -> FInf
             [] a.k = "fin" -> Fin(0 - a.num, a.den)
             [] OTHER -> FNull

\* IEEE a / b, as numpy evaluates a float column divided by another
FDiv(a, b) ==
    IF FIsNull(a) \/ FIsNull(b) THEN FNull
    ELSE IF FIsInfinite(a)
         THEN (IF FIsInfinite(b) THEN FNull
               ELSE FSigned(FSign(a) * (IF FSign(b) < 0 THEN 0 - 1 ELSE 1)))
    ELSE IF FIsInfinite(b) THEN FInt(0)
    ELSE IF b.num = 0
         THEN (IF a.num = 0 THEN FNull ELSE FSigned(FSign(a)))
    ELSE Fin(a.num * b.den, a.den * b.num)

\* IEEE a - b
FSub(a, b) ==
    IF FIsNull(a) \/ FIsNull(b) THEN FNull
    ELSE IF FIsInfinite(a)
         THEN (IF b.k = a.k THEN FNull ELSE a)
    ELSE IF FIsInfinite(b) THEN FNeg(b)
    ELSE Fin(a.num * b.den - b.num * a.den, a.den * b.den)

\* ----------------------------------------------------------- KPI Aggregator
\* _add_month on one date: Series.dt.to_period("M").dt.to_timestamp()
MonthOf(c) ==
    IF c.k = "date"
    THEN LET ymd == CivilFromDays(c.n) IN Date(DaysFromCivil(ymd.y, ymd.m, 1), 0)
    ELSE Null



\* _add_month (kpis.py lines 6-12) as a table: the month column is stored
\* into the table under the label month.
N_month == <<"m","o","n","t","h">>
add_month(df) ==
    LET month == IF HasCol(df, N_date)
                 THEN [i \in 1..df.nrows |-> MonthOf(Col(df, N_date)[i])]
                 ELSE [i \in 1..df.nrows |-> Null]
    IN  IF HasCol(df, N_month)
        THEN [df EXCEPT !.data[ColIndex(df, N_month)] = month]
        ELSE Table(Append(df.columns, N_month), Append(df.data, month), df.nrows)

\* (variant: a missing column is synthesized as zeros)
ColOrNa_Zero(df, name) ==
    IF HasCol(df, name) THEN Col(df, name) ELSE [i \in 1..df.nrows |-> Num(0)]

\* Column `name` of df, or a column of pd.NA when df lacks it (lines 26-28)
ColOrNa(df, name) ==
    IF HasCol(df, name) THEN Col(df, name) ELSE [i \in 1..df.nrows |-> Null]

\* revenue - cost on one row
RowDiff(a, b) == IF a.k = "num" /\ b.k = "num" THEN Num(a.n - b.n) ELSE Null
\* gross_profit / revenue on one row
RowRatio(a, b) == FDiv(IF a.k = "num" THEN FInt(a.n) ELSE FNull,
                       IF b.k = "num" THEN FInt(b.n) ELSE FNull)

\* The working frame of build_tables after line 35, one record per row.
\* Defined for a df that has a revenue column.
WorkingRows(df) ==
    LET month   == IF HasCol(df, N_date)
                   THEN [i \in 1..df.nrows |-> MonthOf(Col(df, N_date)[i])]
                   ELSE [i \in 1..df.nrows |-> Null]
        cost    == ToNumericColumn(ColOrNa(df, N_cost))
        units   == ToNumericColumn(ColOrNa(df, N_units))
        revenue == ToNumericColumn(Col(df, N_revenue))
        region  == ColOrNa(df, N_region)
        product == ColOrNa(df, N_product)
    IN  [i \in 1..df.nrows |->
            [month |-> month[i], revenue |-> revenue[i], cost |-> cost[i],
             units |-> units[i], region |-> region[i], product |-> product[i],
             gross_profit |-> RowDiff(revenue[i], cost[i]),
             margin |-> RowRatio(RowDiff(revenue[i], cost[i]), revenue[i])]]

\* Series.sum(skipna=True) and the groupby "sum": nulls are skipped and the
\* sum of nothing is 0.  Summed over the rows of `rows` at positions `idx`.
RECURSIVE SumAt(_, _, _)
SumAt(rows, field, idx) ==
    IF idx = {} THEN 0
    ELSE LET i == CHOOSE j \in idx : TRUE
         IN  (IF rows[i][field].k = "num" THEN rows[i][field].n ELSE 0)
             + SumAt(rows, field, idx \ {i})

AllRows(rows) == 1..Len(rows)

\* (variant: the Summary margin is the mean of the row margins)
RECURSIVE MarginTotal(_, _)
MarginTotal(rows, idx) ==
    IF idx = {} THEN FInt(0)
    ELSE LET i == CHOOSE j \in idx : TRUE
         IN  FSub(MarginTotal(rows, idx \ {i}), FNeg(rows[i].margin))
SummaryTable_MeanMargin(rows) ==
    LET valid == {i \in AllRows(rows) : rows[i].margin.k = "fin"}
    IN  << [metric |-> "revenue",      value |-> FInt(SumAt(rows, "revenue", AllRows(rows)))],
           [metric |-> "cost",         value |-> FInt(SumAt(rows, "cost", AllRows(rows)))],
           [metric |-> "gross_profit", value |-> FInt(SumAt(rows, "gross_profit", AllRows(rows)))],
           [metric |-> "margin",
            value  |-> IF valid # {}
                       THEN FDiv(MarginTotal(rows, valid), FInt(Cardinality(valid)))
                       ELSE FNull],
           [metric |-> "units",        value |-> FInt(SumAt(rows, "units", AllRows(rows)))],
           [metric |-> "rows_loaded",  value |-> FInt(Len(rows))] >>

\* (variant: rows_loaded counts only the rows with a date and a revenue)
SummaryTable_CountComplete(rows) ==
    LET rev == SumAt(rows, "revenue", AllRows(rows))
        gp  == SumAt(rows, "gross_profit", AllRows(rows))
        complete == {i \in AllRows(rows) :
                        rows[i].month.k # "null" /\ rows[i].revenue.k # "null"}
    IN  << [metric |-> "revenue",      value |-> FInt(rev)],
           [metric |-> "cost",         value |-> FInt(SumAt(rows, "cost", AllRows(rows)))],
           [metric |-> "gross_profit", value |-> FInt(gp)],
           [metric |-> "margin",
            value  |-> IF rev # 0 THEN FDiv(FInt(gp), FInt(rev)) ELSE FNull],
           [metric |-> "units",        value |-> FInt(SumAt(rows, "units", AllRows(rows)))],
           [metric |-> "rows_loaded",  value |-> FInt(Cardinality(complete))] >>

\* lines 38-50
SummaryTable(rows) ==
    LET rev == SumAt(rows, "revenue", AllRows(rows))
        gp  == SumAt(rows, "gross_profit", AllRows(rows))
    IN  << [metric |-> "revenue",      value |-> FInt(rev)],
           [metric |-> "cost",         value |-> FInt(SumAt(rows, "cost", AllRows(rows)))],
           [metric |-> "gross_profit", value |-> FInt(gp)],
           [metric |-> "margin",
            value  |-> IF rev # 0 THEN FDiv(FInt(gp), FInt(rev)) ELSE FNull],
           [metric |-> "units",        value |-> FInt(SumAt(rows, "units", AllRows(rows)))],
           [metric |-> "rows_loaded",  value |-> FInt(Len(rows))] >>

\* (variant: nulls first, na_position="first")
KeyLess_NullsFirst(a, b) ==
    IF b.k = "null" THEN FALSE
    ELSE IF a.k = "null" THEN TRUE
    ELSE IF a.k = "str" /\ b.k = "str" THEN StrLess(a.s, b.s)
    ELSE a.n < b.n \/ (a.n = b.n /\ a.f < b.f)

\* Sort order of group keys: ascending, nulls last (na_position="last").
\* Dates by time, text by code point, numbers by value.
KeyLess(a, b) ==
    IF a.k = "null" THEN FALSE
    ELSE IF b.k = "null" THEN TRUE
    ELSE IF a.k = "str" /\ b.k = "str" THEN StrLess(a.s, b.s)
    ELSE a.n < b.n \/ (a.n = b.n /\ a.f < b.f)

\* The elements of a finite set of keys as a sequence in KeyLess order,
\* comparing tuples of keys position by position.
RECURSIVE TupleLess(_, _)
TupleLess(a, b) ==
    IF a = <<>> THEN FALSE
    ELSE IF Head(a) = Head(b) THEN TupleLess(Tail(a), Tail(b))
    ELSE KeyLess(Head(a), Head(b))

RECURSIVE SortedKeys(_)
SortedKeys(keys) ==
    IF keys = {} THEN <<>>
    ELSE LET first == CHOOSE a \in keys : \A b \in keys \ {a} : TupleLess(a, b)
         IN  <<first>> \o SortedKeys(keys \ {first})

\* (variant: groupby with its default dropna=True, the null month dropped)
TrendsTable_DropNa(rows) ==
    LET keys == SortedKeys({<<rows[i].month>> : i \in
                               {j \in AllRows(rows) : rows[j].month.k # "null"}})
        grp(key) == {i \in AllRows(rows) : rows[i].month = key}
    IN  [g \in 1..Len(keys) |->
            LET idx == grp(keys[g][1])
                rev == FInt(SumAt(rows, "revenue", idx))
                gp  == FInt(SumAt(rows, "gross_profit", idx))
            IN  [month |-> keys[g][1],
                 revenue |-> rev,
                 cost |-> FInt(SumAt(rows, "cost", idx)),
                 gross_profit |-> gp,
                 units |-> FInt(SumAt(rows, "units", idx)),
                 margin |-> FDiv(gp, rev)]]

\* lines 53-63: groupby("month", dropna=False).agg(sum).sort_values("month"),
\* then the margin of the aggregate row
TrendsTable(rows) ==
    LET keys == SortedKeys({<<rows[i].month>> : i \in AllRows(rows)})
        grp(key) == {i \in AllRows(rows) : rows[i].month = key}
    IN  [g \in 1..Len(keys) |->
            LET idx == grp(keys[g][1])
                rev == FInt(SumAt(rows, "revenue", idx))
                gp  == FInt(SumAt(rows, "gross_profit", idx))
            IN  [month |-> keys[g][1],
                 revenue |-> rev,
                 cost |-> FInt(SumAt(rows, "cost", idx)),
                 gross_profit |-> gp,
                 units |-> FInt(SumAt(rows, "units", idx)),
                 margin |-> FDiv(gp, rev)]]


\* for col in ["revenue", "cost", "gross_profit", "units", "margin"]
MomColumns == <<"revenue", "cost", "gross_profit", "units", "margin">>

\* (variant: the first row is differenced against zero)
MomAbs_FromZero(trends, col, i) ==
    IF i = 1 THEN trends[i][col] ELSE FSub(trends[i][col], trends[i - 1][col])

\* Series.diff() at row i
MomAbs(trends, col, i) ==
    IF i = 1 THEN FNull ELSE FSub(trends[i][col], trends[i - 1][col])

\* The series pct_change divides.  pandas before 3.0 forward-fills it first
\* (fill_method="pad", the default); pandas 3.0 and later leave it as it is.
RECURSIVE Filled(_, _, _, _)
Filled(trends, col, i, fill) ==
    IF fill = "pad" /\ FIsNull(trends[i][col]) /\ i > 1
    THEN Filled(trends, col, i - 1, fill)
    ELSE trends[i][col]

\* Series.pct_change() at row i: data / data.shift(1) - 1
MomPct(trends, col, i, fill) ==
    IF i = 1 THEN FNull
    ELSE FSub(FDiv(Filled(trends, col, i, fill), Filled(trends, col, i - 1, fill)),
              FInt(1))

\* lines 66-69
VarianceTable(trends, fill) ==
    [i \in 1..Len(trends) |->
        trends[i] @@
        [revenue_mom_abs      |-> MomAbs(trends, "revenue", i),
         revenue_mom_pct      |-> MomPct(trends, "revenue", i, fill),
         cost_mom_abs         |-> MomAbs(trends, "cost", i),
         cost_mom_pct         |-> MomPct(trends, "cost", i, fill),
         gross_profit_mom_abs |-> MomAbs(trends, "gross_profit", i),
         gross_profit_mom_pct |-> MomPct(trends, "gross_profit", i, fill),
         units_mom_abs        |-> MomAbs(trends, "units", i),
         units_mom_pct        |-> MomPct(trends, "units", i, fill),
         margin_mom_abs       |-> MomAbs(trends, "margin", i),
         margin_mom_pct       |-> MomPct(trends, "margin", i, fill)]]

\* The name of the percentage column of each MoM column
MomPctName == [revenue |-> "revenue_mom_pct", cost |-> "cost_mom_pct",
               gross_profit |-> "gross_profit_mom_pct",
               units |-> "units_mom_pct", margin |-> "margin_mom_pct"]
MomAbsName == [revenue |-> "revenue_mom_abs", cost |-> "cost_mom_abs",
               gross_profit |-> "gross_profit_mom_abs",
               units |-> "units_mom_abs", margin |-> "margin_mom_abs"]

\* (variant: groupby with its default dropna=True, null keys dropped)
DrilldownTable_DropNa(rows, dim) ==
    LET kept == {i \in AllRows(rows) :
                    rows[i].month.k # "null" /\ rows[i][dim].k # "null"}
        keys == SortedKeys({<<rows[i].month, rows[i][dim]>> : i \in kept})
        grp(key) == {i \in kept : rows[i].month = key[1] /\ rows[i][dim] = key[2]}
    IN  [g \in 1..Len(keys) |->
            [month |-> keys[g][1],
             dim |-> keys[g][2],
             revenue |-> FInt(SumAt(rows, "revenue", grp(keys[g]))),
             gross_profit |-> FInt(SumAt(rows, "gross_profit", grp(keys[g])))]]

\* (variant: a null dimension value is labelled "Unknown" before grouping)
DrilldownTable_Unknown(rows, dim) ==
    LET label(v) == IF v.k = "null" THEN Str(<<"U","n","k","n","o","w","n">>) ELSE v
        keys == SortedKeys({<<rows[i].month, label(rows[i][dim])>> : i \in AllRows(rows)})
        grp(key) == {i \in AllRows(rows) :
                        rows[i].month = key[1] /\ label(rows[i][dim]) = key[2]}
    IN  [g \in 1..Len(keys) |->
            [month |-> keys[g][1],
             dim |-> keys[g][2],
             revenue |-> FInt(SumAt(rows, "revenue", grp(keys[g]))),
             gross_profit |-> FInt(SumAt(rows, "gross_profit", grp(keys[g])))]]

\* lines 72-82: groupby(["month", dim], dropna=False).agg(sum)
\*              .sort_values(["month", dim])
DrilldownTable(rows, dim) ==
    LET keys == SortedKeys({<<rows[i].month, rows[i][dim]>> : i \in AllRows(rows)})
        grp(key) == {i \in AllRows(rows) :
                        rows[i].month = key[1] /\ rows[i][dim] = key[2]}
    IN  [g \in 1..Len(keys) |->
            [month |-> keys[g][1],
             dim |-> keys[g][2],
             revenue |-> FInt(SumAt(rows, "revenue", grp(keys[g]))),
             gross_profit |-> FInt(SumAt(rows, "gross_profit", grp(keys[g])))]]

NoTables == [Summary |-> <<>>, Trends |-> <<>>, Variance |-> <<>>,
             Drilldown_Region |-> <<>>, Drilldown_Product |-> <<>>]

\* build_tables(df): [raised, tables].  df["revenue"] on line 32 raises
\* KeyError when df has no revenue column (lines 26-28 supply only cost,
\* units, region and product).
build_tables(df, fill) ==
    IF ~HasCol(df, N_revenue)
    THEN [raised |-> TRUE, tables |-> NoTables]
    ELSE LET rows   == WorkingRows(df)
             trends == TrendsTable(rows)
         IN  [raised |-> FALSE,
              tables |-> [Summary |-> SummaryTable(rows),
                          Trends |-> trends,
                          Variance |-> VarianceTable(trends, fill),
                          Drilldown_Region |-> DrilldownTable(rows, "region"),
                          Drilldown_Product |-> DrilldownTable(rows, "product")]]


\* ================================================================ inputs
\* Raw rows, one value per role.  TextRows are rows as a CSV file gives
\* them where a column holds text; NumberRows are rows of numeric columns.
\* A raw table takes all its rows from one of the two lists, so that its
\* date column is either text or numeric.
RawRow(date, rev, rev2, cost, units, region, product, notes) ==
    [date |-> date, rev |-> rev, rev2 |-> rev2, cost |-> cost, units |-> units,
     region |-> region, product |-> product, notes |-> notes]

TextRows ==
    << RawRow(Str(<<"2","0","2","5","-","0","1","-","0","1">>), Str(<<"1","0","0">>), Null, Str(<<"4","0">>), Num(2),
              Str(<<" ","N","S","W"," ">>), Str(<<"W","i","d","g","e","t"," ","A">>), Str(<<"a","b","c">>)),
       RawRow(Str(<<"n","o","t"," ","a"," ","d","a","t","e">>), Str(<<>>), Str(<<"2","5","0">>), Str(<<"a","b","c">>), Str(<<"a","b","c">>),
              Str(<<"N","a","N">>), Str(<<"n","u","l","l">>), Str(<<" "," ">>)),
       RawRow(Str(<<"4","4","9","2","7">>), Str(<<" ","2","5","0"," ">>), Null, Null, Null,
              Str(<<"n","a","n">>), Str(<<"N","o","n","e">>), Str(<<"n","o","n","e">>)),
       RawRow(Str(<<"2","0","2","5","-","0","2","-","0","1">>), Null, Str(<<"a","b","c">>), Str(<<"0">>), Num(1),
              Str(<<"V","I","C">>), Str(<<"N","U","L","L">>), Num(40)),
       RawRow(Str(<<"4","4","9","2","7",".","0">>), Str(<<"a","b","c">>), Str(<<"1","0","0">>), Str(<<"-","5">>), Str(<<" ","2">>),
              Null, Str(<<"W","i","d","g","e","t"," ","A">>), Str(<<" ","N","u","l","l"," ">>)),
       RawRow(Null, Str(<<"0">>), Null, Str(<<"4","0">>), Str(<<"n","a","n">>),
              Str(<<" ","N","S","W"," ">>), Null, Str(<<"a","b","c">>)) >>

NumberRows ==
    << RawRow(Num(44927), Num(100), Null, Num(40), Num(2),
              Str(<<"V","I","C">>), Str(<<"W","i","d","g","e","t"," ","A">>), Num(40)),
       RawRow(Num(5), Num(0), Num(250), Num(5), Num(1),
              Str(<<" ","N","S","W"," ">>), Str(<<"N","U","L","L">>), Null),
       RawRow(Num(20000), Null, Num(100), Null, Null,
              Null, Str(<<"W","i","d","g","e","t"," ","A">>), Num(5)),
       RawRow(Num(60000), Num(250), Null, Num(0), Num(2),
              Str(<<"N","a","N">>), Null, Num(40)),
       RawRow(Num(60001), Num(100), Num(250), Num(40), Null,
              Str(<<"V","I","C">>), Str(<<"N","o","n","e">>), Null),
       RawRow(Null, Null, Null, Num(5), Num(1),
              Str(<<"V","I","C">>), Str(<<"W","i","d","g","e","t"," ","A">>), Num(5)) >>

\* Column layouts: the raw header of each column and the role whose values
\* it carries.
Layouts ==
    { \* the demo extract of main.make_demo_inputs
      << <<<<"T","r","a","n","s","a","c","t","i","o","n"," ","D","a","t","e">>, "date">>, <<<<" ","S","t","a","t","e"," ">>, "region">>,
         <<<<"S","a","l","e","s","(","$",")">>, "rev">>, <<<<"C","O","G","S">>, "cost">>, <<<<"Q","t","y">>, "units">>,
         <<<<"S","K","U">>, "product">> >>,
      \* two columns aliased to revenue
      << <<<<"D","a","t","e">>, "date">>, <<<<"S","a","l","e","s">>, "rev">>, <<<<"R","e","v","e","n","u","e">>, "rev2">> >>,
      \* no date column
      << <<<<"R","e","v","e","n","u","e">>, "rev">>, <<<<"T","o","t","a","l"," ","C","o","s","t">>, "cost">>, <<<<"N","o","t","e","s">>, "notes">> >>,
      \* no revenue column
      << <<<<"O","r","d","e","r"," ","D","a","t","e">>, "date">>, <<<<"R","e","g","i","o","n">>, "region">> >>,
      \* canonical names and a passthrough column
      << <<<<"d","a","t","e">>, "date">>, <<<<"r","e","v","e","n","u","e">>, "rev">>, <<<<"u","n","i","t","s">>, "units">>,
         <<<<"N","o","t","e","s">>, "notes">> >>,
      \* two raw headers with the same canonicalized name
      << <<<<"D","a","t","e">>, "date">>, <<<<"A","m","o","u","n","t">>, "rev">>,
         <<<<"R","e","g","i","o","n">>, "region">>, <<<<" ","r","e","g","i","o","n"," ">>, "product">> >> }

\* The alias arguments tried: None, the empty dict (the configuration's
\* default) and a caller's own tables.
CustomAliases == AliasDict({ <<<<"s","a","l","e","s">>, N_revenue>>, <<<<"d","a","t","e">>, N_date>>,
                             <<<<"n","o","t","e","s">>, N_region>> })
\* A caller's table in which a value is itself a key
ChainAliases == AliasDict({ <<<<"s","a","l","e","s">>, N_revenue>>, <<N_revenue, N_cost>> })
AliasChoices == {NoAliases, AliasDict({}), CustomAliases, ChainAliases}

RowSeqs(rowList, maxLen) ==
    UNION {[1..n -> 1..Len(rowList)] : n \in 0..maxLen}

MakeTable(layout, rowList, pick) ==
    Table([c \in 1..Len(layout) |-> layout[c][1]],
          [c \in 1..Len(layout) |->
              [i \in 1..Len(pick) |-> rowList[pick[i]][layout[c][2]]]],
          Len(pick))

RawTables ==
    {MakeTable(layout, TextRows, pick) :
        layout \in Layouts, pick \in RowSeqs(TextRows, MaxRows)}
    \cup
    {MakeTable(layout, NumberRows, pick) :
        layout \in Layouts, pick \in RowSeqs(NumberRows, MaxRows)}

\* Rows of an already clean fact table, for build_tables() called on its
\* own: dates are timestamps, numbers are numbers, dimensions are text.
D(y, m, d) == Date(DaysFromCivil(y, m, d), 0)

FactRows ==
    << RawRow(D(2025, 1, 15), Num(100), Null, Num(40), Num(2),
              Str(<<"N","S","W">>), Str(<<"W","i","d","g","e","t"," ","A">>), Null),
       RawRow(D(2025, 1, 20), Num(0), Null, Num(5), Num(1),
              Str(<<"V","I","C">>), Str(<<"W","i","d","g","e","t"," ","A">>), Null),
       RawRow(D(2025, 2, 1), Num(250), Null, Null, Null,
              Null, Str(<<"W","i","d","g","e","t"," ","B">>), Null),
       RawRow(D(2025, 2, 10), Null, Null, Num(5), Num(1),
              Str(<<"N","S","W">>), Null, Null),
       RawRow(Null, Num(100), Null, Num(40), Num(2),
              Str(<<"V","I","C">>), Str(<<"W","i","d","g","e","t"," ","B">>), Null),
       RawRow(D(2025, 3, 5), Num(250), Null, Num(0), Null,
              Str(<<"N","S","W">>), Str(<<"W","i","d","g","e","t"," ","A">>), Null),
       RawRow(D(2024, 12, 31), Num(0), Null, Num(0), Num(0),
              Null, Null, Null) >>

FactLayouts ==
    { << <<N_date, "date">>, <<N_revenue, "rev">>, <<N_cost, "cost">>,
         <<N_units, "units">>, <<N_region, "region">>, <<N_product, "product">> >>,
      << <<N_date, "date">>, <<N_revenue, "rev">> >>,
      << <<N_revenue, "rev">>, <<N_cost, "cost">>, <<N_region, "region">> >> }

FactTables ==
    {MakeTable(layout, FactRows, pick) :
        layout \in FactLayouts, pick \in RowSeqs(FactRows, MaxFactRows)}


\* ================================================================= state
VARIABLES
    pc,        \* the stage the run has reached
    raw,       \* df_raw, the table handed to clean()
    aliases,   \* the aliases argument of clean()
    df,        \* the table the current stage holds
    warnings,  \* the list validate() returned
    tables,    \* the dict build_tables() returned
    error,     \* the function that raised, or "none"
    pctFill,   \* fill_method default of the installed pandas' pct_change
    arg,       \* the table the last stage was called with, as the call left it
    other,     \* a second invocation of clean and build_tables, if there is one
    conf,      \* config.yaml as parsed and the command line flags of main
    calls,     \* the functions invoked so far, in order
    exit       \* the exit code main returned, or "running"

vars == <<pc, raw, aliases, df, warnings, tables, error, pctFill,
          arg, default_aliases, other, conf, calls, exit>>

\* A second invocation that has not been made, and a run without main
NoInvocation ==
    [pc |-> "none", raw |-> Table(<<>>, <<>>, 0), aliases |-> NoAliases,
     df |-> Table(<<>>, <<>>, 0), warnings |-> <<>>, tables |-> NoTables,
     error |-> "none"]
NoConf == [file |-> "none"]

\* The rest of the state when clean() or build_tables() is called by a
\* caller of its own: the module as imported, nothing else running.
CalledAlone ==
    /\ default_aliases = DEFAULT_ALIASES
    /\ other = NoInvocation
    /\ conf = NoConf
    /\ calls = <<>>
    /\ exit = "running"

\* clean(df_raw, aliases) is about to be called.
Init ==
    /\ pc = "start"
    /\ raw \in RawTables
    /\ aliases \in AliasChoices
    /\ df = raw
    /\ warnings = <<>>
    /\ tables = NoTables
    /\ error = "none"
    /\ pctFill \in {"pad", "none"}
    /\ arg = raw
    /\ CalledAlone

\* clean line 150
StandardiseColumns ==
    /\ pc = "start"
    /\ df' = standardise_columns(df)
    /\ arg' = CallerTableAfter(df, standardise_columns(df))
    /\ calls' = Append(calls, "clean")
    /\ pc' = "standardised"
    /\ UNCHANGED <<raw, aliases, warnings, tables, error, pctFill,
                   default_aliases, other, conf, exit>>

\* clean line 151
ApplyAliases ==
    /\ pc = "standardised"
    /\ LET r == apply_aliases(df, aliases)
       IN  IF r.raised
           THEN /\ pc' = "raised"
                /\ error' = "apply_aliases"
                /\ UNCHANGED df
           ELSE /\ pc' = "aliased"
                /\ df' = r.df
                /\ UNCHANGED error
    /\ arg' = CallerTableAfter(df, apply_aliases(df, aliases).df)
    /\ default_aliases' = ModuleAliasesAfter(default_aliases, aliases)
    /\ UNCHANGED <<raw, aliases, warnings, tables, pctFill, other, conf, calls, exit>>

\* clean line 152
CoerceTypes ==
    /\ pc = "aliased"
    /\ df' = coerce_types(df)
    /\ arg' = CallerTableAfter(df, coerce_types(df))
    /\ pc' = "coerced"
    /\ UNCHANGED <<raw, aliases, warnings, tables, error, pctFill,
                   default_aliases, other, conf, calls, exit>>

\* clean lines 153-154; validate (lines 131-146) reads df and stores
\* nothing into it
Validate ==
    /\ pc = "coerced"
    /\ warnings' = validate(df)
    /\ arg' = df
    /\ pc' = "cleaned"
    /\ UNCHANGED <<raw, aliases, df, tables, error, pctFill,
                   default_aliases, other, conf, calls, exit>>

\* main line 105: build_tables(result.df)
BuildTables ==
    /\ pc = "cleaned"
    /\ LET r == build_tables(df, pctFill)
       IN  IF r.raised
           THEN /\ pc' = "raised"
                /\ error' = "build_tables"
                /\ UNCHANGED tables
           ELSE /\ pc' = "built"
                /\ tables' = r.tables
                /\ UNCHANGED error
    /\ arg' = CallerTableAfter(df, add_month(df))
    /\ calls' = Append(calls, "build_tables")
    /\ UNCHANGED <<raw, aliases, df, warnings, pctFill,
                   default_aliases, other, conf, exit>>

Next ==
    \/ StandardiseColumns
    \/ ApplyAliases
    \/ CoerceTypes
    \/ Validate
    \/ BuildTables

Spec == Init /\ [][Next]_vars


\* build_tables(df) is about to be called on a fact table of its own.
InitKpi ==
    /\ pc = "cleaned"
    /\ raw \in FactTables
    /\ aliases = NoAliases
    /\ df = raw
    /\ warnings = <<>>
    /\ tables = NoTables
    /\ error = "none"
    /\ pctFill \in {"pad", "none"}
    /\ arg = raw
    /\ CalledAlone

SpecKpi == InitKpi /\ [][BuildTables]_vars

\* ---------------------------------------------------- round-trip scenario
\* Rows of one batch of the round-trip scenario, scaled down from the 60 and
\* 55 rows of main.make_demo_inputs.
MaxBatch == 3

\* The headers of a demo extract, with the lineage column of read_one_file
DemoColumns ==
    << <<"T","r","a","n","s","a","c","t","i","o","n"," ","D","a","t","e">>, <<" ","S","t","a","t","e"," ">>, <<"S","a","l","e","s","(","$",")">>, <<"C","O","G","S">>, <<"Q","t","y">>, <<"S","K","U">>,
       <<"s","o","u","r","c","e","_","f","i","l","e">> >>

DemoAmounts == <<100, 250>>
DemoRegions == << <<"N","S","W">>, <<"V","I","C">> >>
JanFile == <<"j","a","n","_","d","u","m","p",".","c","s","v">>
FebFile == <<"f","e","b","_","d","u","m","p",".","x","l","s","x">>
JanStart == <<"2","0","2","5","-","0","1","-","0","1">>
FebStart == <<"2","0","2","5","-","0","2","-","0","1">>

\* Row i of mk(month_start, n) as read back from its file: the amounts
\* alternate, starting at DemoAmounts[shift + 1].
DemoRow(month_start, i, shift, file) ==
    << Str(month_start), Str(DemoRegions[(i % 2) + 1]),
       Num(DemoAmounts[((i + shift) % 2) + 1]), Num(40), Num(i),
       Str(<<"W","i","d","g","e","t"," ","A">>), Str(file) >>

\* mk(month_start, n) with the two edits of lines 41-42 at rows blank and
\* bad (row 0: no edit): the blanked Sales($) cell is read back as a
\* missing value, the date of row bad is the text "not a date".
DemoBatch(month_start, n, blank, bad, shift, file) ==
    [i \in 1..n |->
        LET row == DemoRow(month_start, i, shift, file)
        IN  IF i = blank THEN [row EXCEPT ![3] = Null]
            ELSE IF i = bad THEN [row EXCEPT ![1] = Str(<<"n","o","t"," ","a"," ","d","a","t","e">>)]
            ELSE row]

\* The positions of the two edits in a batch of n rows: two different rows
BatchEdits(n) == {e \in (1..n) \X (1..n) : e[1] # e[2]}

\* read_all: the files in sorted order (feb_dump.xlsx before jan_dump.csv),
\* concatenated with a fresh index.
read_all(jan, feb) ==
    LET rows == feb \o jan
    IN  Table(DemoColumns,
              [c \in 1..Len(DemoColumns) |-> [i \in 1..Len(rows) |-> rows[i][c]]],
              Len(rows))

\* The raw tables of the scenario: a January batch with both edits, and a
\* February batch either clean or, as make_demo_inputs writes it, with both
\* edits too.
RoundTripTables ==
    { read_all(DemoBatch(JanStart, nj[1], nj[2][1], nj[2][2], shift, JanFile),
               DemoBatch(FebStart, nf[1], nf[2][1], nf[2][2], shift, FebFile)) :
        nj \in UNION {{n} \X BatchEdits(n) : n \in 2..MaxBatch},
        nf \in UNION {{n} \X (BatchEdits(n) \cup {<<0, 0>>}) : n \in 1..MaxBatch},
        shift \in {0, 1} }

\* main lines 96-105 on the files of the scenario: clean(df_raw, cfg.aliases)
\* is about to be called, cfg.aliases being the configuration's default {}.
InitRoundTrip ==
    /\ pc = "start"
    /\ raw \in RoundTripTables
    /\ aliases \in {NoAliases, AliasDict({})}
    /\ df = raw
    /\ warnings = <<>>
    /\ tables = NoTables
    /\ error = "none"
    /\ pctFill \in {"pad", "none"}
    /\ arg = raw
    /\ CalledAlone

SpecRoundTrip == InitRoundTrip /\ [][Next]_vars

\* ------------------------------------------------------- two invocations
\* One stage of an invocation held in a record [pc, raw, aliases, df,
\* warnings, tables, error], `map` being the alias table in effect when
\* apply_aliases runs (clean lines 150-154, main line 105).
StageWith(inv, fill, map) ==
    CASE inv.pc = "start" ->
            [inv EXCEPT !.df = standardise_columns(inv.df), !.pc = "standardised"]
      [] inv.pc = "standardised" ->
            LET r == ApplyAliasMap(inv.df, map)
            IN  IF r.raised
                THEN [inv EXCEPT !.pc = "raised", !.error = "apply_aliases"]
                ELSE [inv EXCEPT !.df = r.df, !.pc = "aliased"]
      [] inv.pc = "aliased" ->
            [inv EXCEPT !.df = coerce_types(inv.df), !.pc = "coerced"]
      [] inv.pc = "coerced" ->
            [inv EXCEPT !.warnings = validate(inv.df), !.pc = "cleaned"]
      [] inv.pc = "cleaned" ->
            LET r == build_tables(inv.df, fill)
            IN  IF r.raised
                THEN [inv EXCEPT !.pc = "raised", !.error = "build_tables"]
                ELSE [inv EXCEPT !.tables = r.tables, !.pc = "built"]
      [] OTHER -> inv

Stage(inv, fill) == StageWith(inv, fill, EffectiveAliases(inv.aliases))

\* An invocation about to call clean(df_raw, aliases)
Invocation(df_raw, given) ==
    [pc |-> "start", raw |-> df_raw, aliases |-> given, df |-> df_raw,
     warnings |-> <<>>, tables |-> NoTables, error |-> "none"]

\* The raw tables of the two invocations: one row under each layout
PairTables == {MakeTable(layout, TextRows, <<1>>) : layout \in Layouts}

\* Two callers are about to call clean, each with a table and an alias
\* argument of its own, in one interpreter.
InitPair ==
    /\ pc = "start"
    /\ raw \in PairTables
    /\ aliases \in AliasChoices
    /\ df = raw
    /\ warnings = <<>>
    /\ tables = NoTables
    /\ error = "none"
    /\ pctFill \in {"pad", "none"}
    /\ arg = raw
    /\ default_aliases = DEFAULT_ALIASES
    /\ other \in {Invocation(t, a) : t \in PairTables, a \in AliasChoices}
    /\ conf = NoConf
    /\ calls = <<>>
    /\ exit = "running"

\* The second invocation runs its next stage.
OtherStage ==
    /\ other.pc \in {"start", "standardised", "aliased", "coerced", "cleaned"}
    /\ other' = Stage(other, pctFill)
    /\ default_aliases' = IF other.pc = "standardised"
                          THEN ModuleAliasesAfter(default_aliases, other.aliases)
                          ELSE default_aliases
    /\ UNCHANGED <<pc, raw, aliases, df, warnings, tables, error, pctFill,
                   arg, conf, calls, exit>>

NextPair ==
    \/ Next
    \/ OtherStage

SpecPair == InitPair /\ [][NextPair]_vars

\* ------------------------------------------------------------------- main
\* The value config.yaml holds under the key aliases, by kind
YamlAliases ==
    {"absent", "null", "mapping", "empty_mapping", "list", "empty_list",
     "text", "empty_text", "number", "zero", "true", "false"}

\* bool(x) of a YAML value
Truthy(v) == v \in {"mapping", "list", "text", "number", "true"}

\* raw.get("aliases", {}) or {} (config.py line 88)
AliasesRaw(v) == IF v # "absent" /\ Truthy(v) THEN v ELSE "empty_mapping"

\* _as_bool(x, default) on an absent key, a YAML bool, or a text that is
\* neither a yes nor a no word
AsBool(x, default) ==
    IF x = "true" THEN TRUE ELSE IF x = "false" THEN FALSE ELSE default

ToggleNames ==
    {"make_pdf", "write_excel_pack", "write_charts", "write_cleaned_csv",
     "write_quality_report", "write_run_log"}

\* resolve_config on a configuration: [raised, cfg].  load_config raises
\* when the file is missing or is not a mapping (lines 32-36), line 90 when
\* aliases_raw is not a dict, _parse_notes when notes is neither text nor a
\* list (line 70).
resolve_config(c) ==
    IF \/ c.file # "mapping"
       \/ AliasesRaw(c.aliases) \notin {"mapping", "empty_mapping"}
       \/ c.notes = "number"
    THEN [raised |-> TRUE, cfg |-> [aliases |-> AliasDict({})]]
    ELSE [raised |-> FALSE,
          cfg |-> [aliases |-> IF AliasesRaw(c.aliases) = "mapping"
                               THEN CustomAliases ELSE AliasDict({}),
                   make_pdf |-> AsBool(c.toggles.make_pdf, TRUE),
                   write_excel_pack |-> AsBool(c.toggles.write_excel_pack, TRUE),
                   write_charts |-> AsBool(c.toggles.write_charts, TRUE),
                   write_cleaned_csv |-> AsBool(c.toggles.write_cleaned_csv, TRUE),
                   write_quality_report |-> AsBool(c.toggles.write_quality_report, TRUE),
                   write_run_log |-> AsBool(c.toggles.write_run_log, TRUE)]]

\* main lines 83-87: --pdf and --no-pdf override cfg.make_pdf
MakePdf(c) ==
    IF c.flag = "no_pdf" THEN FALSE
    ELSE IF c.flag = "pdf" THEN TRUE
    ELSE resolve_config(c).cfg.make_pdf

Config(file, aliasValue, notes, toggles, flag) ==
    [file |-> file, aliases |-> aliasValue, notes |-> notes, toggles |-> toggles,
     flag |-> flag]

NoToggles == [t \in ToggleNames |-> "absent"]

\* The configurations tried: no file or a file that is not a mapping; every
\* kind of aliases value; notes of the wrong type; and, with an alias
\* mapping, every choice of toggles and of the pdf flags.
Configs ==
    {Config(f, "mapping", "list", NoToggles, "none") : f \in {"missing", "not_mapping"}}
    \cup {Config("mapping", a, "list", NoToggles, "none") : a \in YamlAliases}
    \cup {Config("mapping", a, "number", NoToggles, "none") : a \in {"absent", "list"}}
    \cup {Config("mapping", "mapping", "absent", t, flag) :
            t \in {s \in [ToggleNames -> {"absent", "true", "false"}] :
                      \A n \in ToggleNames \ {"make_pdf"} : s[n] # "true"},
            flag \in {"none", "pdf", "no_pdf"}}

\* read_one_file (ingest.py lines 16-30): the file's table with the lineage
\* column stored under source_file.
read_one_file(t, file) ==
    IF HasCol(t, DemoColumns[7])
    THEN [t EXCEPT !.data[ColIndex(t, DemoColumns[7])] = [i \in 1..t.nrows |-> Str(file)]]
    ELSE Table(Append(t.columns, DemoColumns[7]),
               Append(t.data, [i \in 1..t.nrows |-> Str(file)]), t.nrows)

\* What read_all can return: pd.DataFrame() when the folder is absent or
\* holds no supported file, else the file's table, which may have no rows.
MainInputs ==
    {Table(<<>>, <<>>, 0)}
    \cup {read_one_file(MakeTable(layout, TextRows, pick), JanFile) :
            layout \in Layouts, pick \in {<<>>, <<1>>}}

\* (variant: only a table without columns is empty)
DataFrameEmpty_NoColumns(t) == Len(t.columns) = 0

\* DataFrame.empty: an axis of length 0
DataFrameEmpty(t) == t.nrows = 0 \/ Len(t.columns) = 0

\* main(argv) is about to run.
InitMain ==
    /\ pc = "main"
    /\ raw = Table(<<>>, <<>>, 0)
    /\ aliases = NoAliases
    /\ df = raw
    /\ warnings = <<>>
    /\ tables = NoTables
    /\ error = "none"
    /\ pctFill \in {"pad", "none"}
    /\ arg = raw
    /\ default_aliases = DEFAULT_ALIASES
    /\ other = NoInvocation
    /\ conf \in Configs
    /\ calls = <<>>
    /\ exit = "running"

\* main lines 71-80
ResolveConfig ==
    /\ pc = "main"
    /\ calls' = Append(calls, "resolve_config")
    /\ LET r == resolve_config(conf)
       IN  IF r.raised
           THEN /\ pc' = "returned"
                /\ exit' = "2"
                /\ UNCHANGED aliases
           ELSE /\ pc' = "configured"
                /\ aliases' = r.cfg.aliases
                /\ UNCHANGED exit
    /\ UNCHANGED <<raw, df, warnings, tables, error, pctFill, arg,
                   default_aliases, other, conf>>

\* main lines 89-99: the folder is read, or mkdir or a reader raises
ReadAll ==
    /\ pc = "configured"
    /\ calls' = Append(calls, "read_all")
    /\ \/ /\ pc' = "raised"
          /\ error' = "read_all"
          /\ UNCHANGED <<raw, df, arg, exit>>
       \/ \E t \in MainInputs :
             /\ raw' = t /\ df' = t /\ arg' = t
             /\ IF DataFrameEmpty(t)
                THEN pc' = "returned" /\ exit' = "2"
                ELSE pc' = "start" /\ UNCHANGED exit
             /\ UNCHANGED error
    /\ UNCHANGED <<aliases, warnings, tables, pctFill, default_aliases, other, conf>>

\* One optional artifact of main: when enabled, the functions `names` are
\* invoked; the last one writes the file, and an exception it raises ends
\* the run unless main catches it.
WriteArtifact(enabled, names, caught, nextpc) ==
    /\ IF ~enabled
       THEN pc' = nextpc /\ UNCHANGED <<calls, error>>
       ELSE /\ calls' = calls \o names
            /\ \E outcome \in {"ok", "PermissionError", "OSError"} :
                  IF outcome \in {"ok"} \cup caught
                  THEN pc' = nextpc /\ UNCHANGED error
                  ELSE pc' = "raised" /\ error' = names[Len(names)]
    /\ exit' = IF pc' = "returned" THEN "0" ELSE exit
    /\ UNCHANGED <<raw, aliases, df, warnings, tables, pctFill, arg,
                   default_aliases, other, conf>>

\* main lines 108-111
WriteCleanedCsv ==
    /\ pc = "built"
    /\ WriteArtifact(resolve_config(conf).cfg.write_cleaned_csv,
                     <<"to_csv">>, {}, "csv_done")

\* main lines 113-121
WriteQualityReport ==
    /\ pc = "csv_done"
    /\ WriteArtifact(resolve_config(conf).cfg.write_quality_report,
                     <<"build_quality_report", "write_quality_excel">>,
                     {"PermissionError"}, "quality_done")

\* main lines 124-138
WriteExcelPack ==
    /\ pc = "quality_done"
    /\ WriteArtifact(resolve_config(conf).cfg.write_excel_pack,
                     <<"write_excel_pack">>, {}, "excel_done")

\* main lines 141-156
GenerateCharts ==
    /\ pc = "excel_done"
    /\ WriteArtifact(resolve_config(conf).cfg.write_charts \/ MakePdf(conf),
                     <<"generate_charts">>, {}, "charts_done")

\* main lines 159-182
WritePdfReport ==
    /\ pc = "charts_done"
    /\ WriteArtifact(MakePdf(conf), <<"write_pdf_report">>,
                     {"PermissionError"}, "pdf_done")

\* main lines 185-202
WriteRunLog ==
    /\ pc = "pdf_done"
    /\ WriteArtifact(resolve_config(conf).cfg.write_run_log,
                     <<"write_run_log">>, {}, "returned")

NextMain ==
    \/ ResolveConfig
    \/ ReadAll
    \/ Next
    \/ WriteCleanedCsv
    \/ WriteQualityReport
    \/ WriteExcelPack
    \/ GenerateCharts
    \/ WritePdfReport
    \/ WriteRunLog

SpecMain == InitMain /\ [][NextMain]_vars

\* ================================================================ claims
\* Rows of Trends followed by the rows of Variance
AggregateRows == tables.Trends \o tables.Variance

\* C1 (as stated): in every row of Trends and Variance, margin equals
\* gross_profit / revenue when the summed revenue is non-null and non-zero
\* and is null otherwise; no row carries an infinite margin.
C1_MarginLaw ==
    pc = "built" =>
        \A i \in 1..Len(AggregateRows) :
            LET row == AggregateRows[i]
            IN  /\ ~FIsInfinite(row.margin)
                /\ IF ~FIsNull(row.revenue) /\ row.revenue.num # 0
                   THEN row.margin = Fin(row.gross_profit.num, row.revenue.num)
                   ELSE FIsNull(row.margin)

\* C2 (as stated): in Variance, col_mom_pct is null in every row whose
\* preceding row has a zero or null value of col.
C2_PctNullOnZeroBase ==
    pc = "built" =>
        \A i \in 2..Len(tables.Variance) : \A c \in 1..Len(MomColumns) :
            LET col  == MomColumns[c]
                base == tables.Variance[i - 1][col]
            IN  (FIsNull(base) \/ (base.k = "fin" /\ base.num = 0))
                    => FIsNull(tables.Variance[i][MomPctName[col]])

\* The table clean() passes to apply_aliases, the renamed table that
\* apply_aliases tests for duplicates, and the table it passes to
\* coerce_types (when apply_aliases returns).
StandardisedRaw == standardise_columns(raw)
RenamedRaw == RenameColumns(StandardisedRaw, EffectiveAliases(aliases))
AliasedRaw == apply_aliases(StandardisedRaw, aliases).df
\* (The formulas below bind A to AliasedRaw once, so that it is computed a
\* single time per state.)

\* The first non-null value among vals, null when all are null
RECURSIVE FirstNonNull(_)
FirstNonNull(vals) ==
    IF vals = <<>> THEN Null
    ELSE IF ~IsNa(Head(vals)) THEN Head(vals)
    ELSE FirstNonNull(Tail(vals))

\* The labels of t in order of first occurrence
FirstOccurrences(t) ==
    SelectSeq([i \in 1..Len(t.columns) |-> i],
              LAMBDA i : \A j \in 1..(i - 1) : t.columns[j] # t.columns[i])

\* t with the columns of each duplicated label merged by first non-null
\* value, left to right
MergedByFirstNonNull(t) ==
    LET firsts == FirstOccurrences(t)
    IN  Table([c \in 1..Len(firsts) |-> t.columns[firsts[c]]],
              [c \in 1..Len(firsts) |->
                  [r \in 1..t.nrows |->
                      FirstNonNull([d \in 1..Len(SelectLabel(t, t.columns[firsts[c]]))
                                      |-> SelectLabel(t, t.columns[firsts[c]])[d][r]])]],
              t.nrows)

\* C3 (as stated): when two or more columns carry the same canonical name
\* after renaming, apply_aliases returns the table with them merged into one
\* column holding, per row, the first non-null value among the duplicates.
C3_DuplicatesMerged ==
    (pc \notin {"start", "standardised"} /\ HasDuplicateColumns(RenamedRaw)) =>
        /\ error # "apply_aliases"
        /\ pc = "aliased" => df = MergedByFirstNonNull(RenamedRaw)

\* C4 (as stated): a required column that is absent from the cleaned table
\* never makes the run raise: build_tables returns its five tables and the
\* absence is reported as a "Missing required column" warning.
C4_MissingRequiredNeverRaises ==
    (pc \in {"built", "raised"} /\ error # "apply_aliases") =>
        \A q \in 1..Len(REQUIRED) :
            ~HasCol(df, REQUIRED[q]) =>
                /\ pc = "built"
                /\ \E w \in 1..Len(warnings) : warnings[w] = MissingColumn(REQUIRED[q])
                /\ Len(tables.Summary) = 6

\* C5: validate returns exactly, in this order: for date and then for
\* revenue, the missing-column entry if the column is absent, otherwise the
\* >50% entry iff strictly more than half of the column is null; then the
\* unparseable-dates entry iff the date column exists and has n > 0 nulls.
C5_NullsOf(t, name) == {i \in 1..t.nrows : Col(t, name)[i].k = "null"}
C5_RequiredEntry(t, name) ==
    IF ~HasCol(t, name) THEN <<MissingColumn(name)>>
    ELSE IF t.nrows > 0 /\ 2 * Cardinality(C5_NullsOf(t, name)) > t.nrows
         THEN <<MostlyMissing(name)>>
         ELSE <<>>
C5_ExpectedWarnings(t) ==
    C5_RequiredEntry(t, N_date) \o C5_RequiredEntry(t, N_revenue)
    \o (IF HasCol(t, N_date) /\ C5_NullsOf(t, N_date) # {}
        THEN <<UnparseableDates(Cardinality(C5_NullsOf(t, N_date)))>>
        ELSE <<>>)

C5_ValidateExact ==
    pc \in {"cleaned", "built"} => warnings = C5_ExpectedWarnings(df)

\* C5 witness: validate has run on a table whose revenue column is null in
\* exactly half of its rows (no >50% entry) and whose date column has nulls.
C5_Witness ==
    /\ pc = "cleaned"
    /\ HasCol(df, N_revenue) /\ HasCol(df, N_date)
    /\ df.nrows = 2 /\ NaCount(Col(df, N_revenue)) = 1
    /\ warnings = <<UnparseableDates(1)>>

\* The entry of column name, row i, that coerce_types received
PreCell(A, name, i) == Col(A, name)[i]

\* A text that is a number: an optional sign, digits, an optional ".0..."
IsNumberText(s) ==
    \E signLen \in 0..1, wholeLen \in 1..Len(s) :
        /\ signLen + wholeLen <= Len(s)
        /\ signLen = 1 => s[1] \in {"-", "+"}
        /\ \A i \in (signLen + 1)..(signLen + wholeLen) : IsDigit(s[i])
        /\ signLen + wholeLen < Len(s) =>
              /\ s[signLen + wholeLen + 1] = "."
              /\ \A i \in (signLen + wholeLen + 2)..Len(s) : s[i] = "0"

\* A text that is a calendar date YYYY-MM-DD
IsCalendarText(s) ==
    /\ Len(s) = 10
    /\ \A i \in {1, 2, 3, 4, 6, 7, 9, 10} : IsDigit(s[i])
    /\ s[5] = "-" /\ s[8] = "-"
    /\ LET m == 10 * DigitVal(s[6]) + DigitVal(s[7])
           d == 10 * DigitVal(s[9]) + DigitVal(s[10])
           y == DigitsValue(SubSeq(s, 1, 4))
       IN  m \in 1..12 /\ d \in 1..DaysInMonth(y, m)

\* The entry held a value and coerce_types turned it into null.
CoercionFailed(A, name, i) ==
    /\ PreCell(A, name, i).k = "str"
    /\ StripSpace(PreCell(A, name, i).s) \notin NullMarkers
    /\ IsNa(Col(df, name)[i])
CoercionFailures(A, name) ==
    IF HasCol(df, name) THEN {i \in 1..df.nrows : CoercionFailed(A, name, i)} ELSE {}

CoercedNames == <<N_date, N_revenue, N_cost, N_units>>

\* C6 (as stated): whenever coerce_types turns an entry of date, revenue,
\* cost or units into null, the warnings of clean contain a warning about
\* that column.
C6_EveryFailureSurfaced ==
    pc = "cleaned" =>
        \A A \in {AliasedRaw} :
        \A c \in 1..Len(CoercedNames) :
            CoercionFailures(A, CoercedNames[c]) # {} =>
                \E w \in 1..Len(warnings) :
                    \/ warnings[w].r = CoercedNames[c]
                    \/ /\ CoercedNames[c] = N_date
                       /\ warnings[w].msg = UnparseableDates(0).msg

\* C6 (amended): a failed date entry is always surfaced, by "Rows with
\* unparseable dates: n" with n at least the number of failed entries; a
\* failed revenue entry is surfaced only by the >50% warning, present
\* exactly when more than half of revenue is null; failed cost and units
\* entries produce no warning.
C6_DateFailuresSurfaced ==
    pc = "cleaned" =>
        \A A \in {AliasedRaw} :
        /\ CoercionFailures(A, N_date) # {} =>
              \E w \in 1..Len(warnings) :
                  /\ warnings[w].msg = UnparseableDates(0).msg
                  /\ warnings[w].bad >= Cardinality(CoercionFailures(A, N_date))
        /\ CoercionFailures(A, N_revenue) # {} =>
              ((\E w \in 1..Len(warnings) : warnings[w] = MostlyMissing(N_revenue))
               <=> 2 * NaCount(Col(df, N_revenue)) > df.nrows)
        /\ \A w \in 1..Len(warnings) : warnings[w].r \notin {N_cost, N_units}

\* C6 witness: clean has returned for a table with a failed date entry that
\* is reported and a failed cost entry that is not.
C6_Witness ==
    \E A \in {AliasedRaw} :
        /\ pc = "cleaned"
        /\ CoercionFailures(A, N_date) # {}
        /\ CoercionFailures(A, N_cost) # {}
        /\ \E w \in 1..Len(warnings) : warnings[w].msg = UnparseableDates(0).msg

\* A value coerce_types cannot parse: in date, a text that is neither a
\* calendar date nor a serial number in range; in revenue, cost and units,
\* a text that (trimmed) is not a number.
Unparseable(name, v) ==
    /\ v.k = "str"
    /\ IF name = N_date
       THEN /\ ~IsCalendarText(v.s)
            /\ ~(IsNumberText(v.s) /\ ExcelSerialMin <= ParseNumber(v.s).n
                                   /\ ParseNumber(v.s).n <= ExcelSerialMax)
       ELSE ~IsNumberText(StripSpace(v.s))

\* The table A with the entry at column position c, row i, made null
WithoutEntry(A, c, i) ==
    [A EXCEPT !.data[c][i] = Null]

C8_SerialRecovery ==
    (pc = "coerced" /\ HasCol(df, N_date)) =>
        \A A \in {AliasedRaw} :
        \A i \in 1..df.nrows :
            LET v == PreCell(A, N_date, i)
                n == ToNumeric(v)
                out == Col(df, N_date)[i]
            IN  /\ IF n.k = "num" /\ 20000 <= n.n /\ n.n <= 60000
                   THEN out = Date(DaysFromCivil(1899, 12, 30) + n.n, 0)
                   ELSE out = ToDatetime(v)
                /\ (n.k = "num" /\ n.n = 44927) =>
                      (out.k = "date" /\ CivilFromDays(out.n) = [y |-> 2023, m |-> 1, d |-> 1])

\* C8 witness: coerce_types has returned a date column in which the serial
\* 60000 became 2064-04-08 and the serial 44927 became 2023-01-01.
C8_Witness ==
    \E A \in {AliasedRaw} :
        /\ pc = "coerced" /\ HasCol(df, N_date)
        /\ \E i, j \in 1..df.nrows :
              /\ PreCell(A, N_date, i) = Num(60000)
              /\ Col(df, N_date)[i] = D(2064, 4, 8)
              /\ PreCell(A, N_date, j) = Num(44927)
              /\ Col(df, N_date)[j] = D(2023, 1, 1)

\* C9 (as stated): a numeric date value outside [20000, 60000], such as 5,
\* is not turned into a calendar date by coerce_types.
C9_OutOfRangeNotADate ==
    (pc = "coerced" /\ HasCol(df, N_date)) =>
        \A A \in {AliasedRaw} :
        \A i \in 1..df.nrows :
            LET v == PreCell(A, N_date, i)
            IN  (v.k = "num" /\ (v.n < 20000 \/ v.n > 60000))
                    => Col(df, N_date)[i].k # "date"

\* Column positions of the text-typed columns other than date that
\* coerce_types received
TextColumns(A) ==
    {c \in 1..Len(A.columns) :
        /\ A.columns[c] # N_date
        /\ \E i \in 1..A.nrows : A.data[c][i].k = "str"}

\* The trimmed text of a non-null value of a text-typed column
TrimmedText(v) == StripSpace(IF v.k = "str" THEN v.s ELSE FormatInt(v.n))

ClaimedMarkers == {<<>>, <<"n","a","n">>, <<"N","o","n","e">>,
                   <<"N","U","L","L">>, <<"n","u","l","l">>}

\* C10 (as stated): every value of a text-typed column other than date is
\* trimmed, and becomes null if the trimmed text equals one of the null
\* markers case-insensitively; every other value is kept as its trimmed
\* text.  (Stated on the columns that are not parsed as numbers afterwards.)
C10_MarkersCaseInsensitive ==
    pc = "coerced" =>
        \A A \in {AliasedRaw} :
        \A c \in TextColumns(A) : \A i \in 1..df.nrows :
            LET v == A.data[c][i]
                t == TrimmedText(v)
            IN  (A.columns[c] \notin NumericNames /\ ~IsNa(v)) =>
                    df.data[c][i] =
                        IF LowerStr(t) \in {LowerStr(m) : m \in ClaimedMarkers}
                        THEN Null ELSE Str(t)

\* C10 (amended): the trimmed text becomes null if it equals one of the
\* null markers exactly, case included; every other value (so "NaN",
\* "none", "Null") is kept as its trimmed text, and in revenue, cost and
\* units is then parsed as a number.
C10_MarkersExact ==
    pc = "coerced" =>
        \A A \in {AliasedRaw} :
        \A c \in TextColumns(A) : \A i \in 1..df.nrows :
            LET v == A.data[c][i]
                t == TrimmedText(v)
                kept == IF IsNa(v) \/ t \in ClaimedMarkers THEN Null ELSE Str(t)
            IN  df.data[c][i] =
                    IF A.columns[c] \in NumericNames
                    THEN ToNumeric(kept) ELSE kept

\* C10 witness: coerce_types has returned a region column in which " NSW "
\* became "NSW" and "NaN" stayed the text "NaN".
C10_Witness ==
    \E A \in {AliasedRaw} :
        /\ pc = "coerced" /\ HasCol(df, N_region)
        /\ \E i, j \in 1..df.nrows :
              /\ PreCell(A, N_region, i) = Str(<<" ","N","S","W"," ">>)
              /\ Col(df, N_region)[i] = Str(<<"N","S","W">>)
              /\ PreCell(A, N_region, j) = Str(<<"N","a","N">>)
              /\ Col(df, N_region)[j] = Str(<<"N","a","N">>)

\* The table the Schema Normalizer (standardise_columns, then
\* apply_aliases) has returned is held in df.
NormalizerReturned ==
    \/ pc \in {"aliased", "coerced", "cleaned", "built"}
    \/ (pc = "raised" /\ error = "build_tables")

SecondPass == apply_aliases(standardise_columns(df), aliases)

\* C12 (as stated): for every input table and every alias table, applying
\* the Schema Normalizer to its own output returns a table with the same
\* column names, column order and values.
C12_Idempotent ==
    pc = "aliased" => SecondPass = [raised |-> FALSE, df |-> df]

\* Every value of the alias table is a canonicalized name that the table
\* does not map to another name.
ClosedAliases(map) ==
    \A kv \in map :
        /\ snake(kv[2]) = kv[2]
        /\ kv[2] \in AliasKeys(map) => AliasValue(map, kv[2]) = kv[2]

\* C12 (amended): the same, for every alias table in effect whose values
\* are canonicalized names that are not keys mapped to a different name (as
\* in DEFAULT_ALIASES).
C12_IdempotentClosedAliases ==
    (pc = "aliased" /\ ClosedAliases(EffectiveAliases(aliases))) =>
        SecondPass = [raised |-> FALSE, df |-> df]

\* C12 witness: apply_aliases has returned, under such an alias table, a
\* table with a renamed column and a raw header that canonicalization
\* changed, and the second application returns that table.
C12_Witness ==
    /\ pc = "aliased"
    /\ ClosedAliases(EffectiveAliases(aliases))
    /\ \E i \in 1..Len(df.columns) :
          /\ snake(raw.columns[i]) # raw.columns[i]
          /\ df.columns[i] # snake(raw.columns[i])
    /\ SecondPass = [raised |-> FALSE, df |-> df]

\* The name the alias table in effect gives to raw column i
C13_Name(i) ==
    LET c == snake(raw.columns[i])
        map == EffectiveAliases(aliases)
    IN  IF c \in AliasKeys(map) THEN AliasValue(map, c) ELSE c

\* The positions of the raw columns whose name occurs for the first time,
\* left to right
C13_Firsts ==
    SelectSeq([i \in 1..Len(raw.columns) |-> i],
              LAMBDA i : \A j \in 1..(i - 1) : C13_Name(j) # C13_Name(i))

\* C13 (as stated): apply_aliases returns the table whose columns are the
\* renamed columns in their original left-to-right order, a duplicated name
\* kept once at the position of its first occurrence; aliased columns carry
\* the mapped name and every column without alias entry keeps its own name
\* and its values.
C13_RenamedInOrder ==
    pc \notin {"start", "standardised"} =>
        /\ error # "apply_aliases"
        /\ pc = "aliased" =>
              /\ df.columns = [c \in 1..Len(C13_Firsts) |-> C13_Name(C13_Firsts[c])]
              /\ \A c \in 1..Len(C13_Firsts) :
                    (\A j \in 1..Len(raw.columns) :
                        j # C13_Firsts[c] => C13_Name(j) # C13_Name(C13_Firsts[c]))
                    => df.data[c] = raw.data[C13_Firsts[c]]

\* The sum of the numbers of a column, nulls ignored
RECURSIVE SumOfNumbers(_)
SumOfNumbers(values) ==
    IF values = <<>> THEN 0
    ELSE (IF Head(values).k = "num" THEN Head(values).n ELSE 0)
         + SumOfNumbers(Tail(values))

\* The column of the fact table, all null when the table lacks it
FactColumn(name) ==
    IF HasCol(df, name) THEN Col(df, name) ELSE [i \in 1..df.nrows |-> Null]

\* revenue - cost row by row: null when either is null
FactGrossProfit ==
    [i \in 1..df.nrows |->
        IF FactColumn(N_revenue)[i].k = "num" /\ FactColumn(N_cost)[i].k = "num"
        THEN Num(FactColumn(N_revenue)[i].n - FactColumn(N_cost)[i].n)
        ELSE Null]

\* C14: the Summary margin is (sum of gross_profit over all rows) / (sum of
\* revenue over all rows) when the revenue total is non-zero, and null when
\* the revenue total is zero or no revenue value is present.
C14_SummaryMarginFromTotals ==
    pc = "built" =>
        LET rev == SumOfNumbers(FactColumn(N_revenue))
            gp  == SumOfNumbers(FactGrossProfit)
        IN  /\ tables.Summary[4].metric = "margin"
            /\ tables.Summary[4].value = IF rev # 0 THEN Fin(gp, rev) ELSE FNull

\* C14 witness: build_tables has returned for the two rows (revenue 100,
\* cost 40) and (revenue 250, cost 0): the row margins 3/5 and 1 average to
\* 4/5, and the Summary margin is 310/350 = 31/35.
C14_Witness ==
    /\ pc = "built"
    /\ df.nrows = 2
    /\ FactGrossProfit = <<Num(60), Num(250)>>
    /\ tables.Summary[4].value = Fin(31, 35)

\* C15: Summary has exactly six rows, named revenue, cost, gross_profit,
\* margin, units, rows_loaded in that order, each with one value; revenue,
\* cost and units are the null-ignoring sums of their columns and
\* rows_loaded is the number of rows of the fact table, rows with a null
\* date or a null revenue included.
C15_SummaryShape ==
    pc = "built" =>
        /\ Len(tables.Summary) = 6
        /\ [i \in 1..6 |-> tables.Summary[i].metric]
              = <<"revenue", "cost", "gross_profit", "margin", "units", "rows_loaded">>
        /\ \A i \in 1..6 : DOMAIN tables.Summary[i] = {"metric", "value"}
        /\ tables.Summary[1].value = FInt(SumOfNumbers(FactColumn(N_revenue)))
        /\ tables.Summary[2].value = FInt(SumOfNumbers(FactColumn(N_cost)))
        /\ tables.Summary[5].value = FInt(SumOfNumbers(FactColumn(N_units)))
        /\ tables.Summary[6].value = FInt(df.nrows)

\* C15 witness: build_tables has returned for a fact table of three rows,
\* one with a null date and one with a null revenue, and rows_loaded is 3.
C15_Witness ==
    /\ pc = "built"
    /\ df.nrows = 3
    /\ HasCol(df, N_date) /\ HasCol(df, N_cost)
    /\ \E i, j \in 1..3 :
          /\ Col(df, N_date)[i] = Null /\ Col(df, N_revenue)[i] # Null
          /\ Col(df, N_revenue)[j] = Null /\ Col(df, N_cost)[j] # Null
    /\ tables.Summary[6].value = FInt(3)
    /\ tables.Summary[1].value # FInt(0)

\* The first day of the calendar month of a date; null for a null date
FirstOfMonth(c) ==
    IF c.k = "date" THEN Date(c.n - (CivilFromDays(c.n).d - 1), 0) ELSE Null

\* The month of each row of the fact table
FactMonths == [i \in 1..df.nrows |-> FirstOfMonth(FactColumn(N_date)[i])]

\* The values of a column on the rows selected by keep, null elsewhere
Restricted(values, keep) ==
    [i \in 1..Len(values) |-> IF keep[i] THEN values[i] ELSE Null]

\* C16: Trends has exactly one row per distinct month of the fact table,
\* the month being the first day of the calendar month of date and null
\* for a null date; the rows with a null date form one group with a null
\* month; each row holds the null-ignoring sums of revenue, cost,
\* gross_profit and units of its group; the rows with a non-null month are
\* in strictly ascending month order.
C16_TrendsPerMonth ==
    pc = "built" =>
        LET months == FactMonths
            T == tables.Trends
            sum(values, m) ==
                FInt(SumOfNumbers(Restricted(values, [i \in 1..df.nrows |-> months[i] = m])))
        IN  /\ Len(T) = Cardinality({months[i] : i \in 1..df.nrows})
            /\ {T[g].month : g \in 1..Len(T)} = {months[i] : i \in 1..df.nrows}
            /\ \A g \in 1..Len(T) :
                  /\ T[g].revenue = sum(FactColumn(N_revenue), T[g].month)
                  /\ T[g].cost = sum(FactColumn(N_cost), T[g].month)
                  /\ T[g].gross_profit = sum(FactGrossProfit, T[g].month)
                  /\ T[g].units = sum(FactColumn(N_units), T[g].month)
            /\ \A g, h \in 1..Len(T) :
                  (g < h /\ T[g].month # Null /\ T[h].month # Null)
                      => T[g].month.n < T[h].month.n

\* C16 witness: build_tables has returned for three rows dated 2025-02-01,
\* null and 2025-01-15 in that order: Trends has the rows January,
\* February and a null month.
C16_Witness ==
    /\ pc = "built"
    /\ HasCol(df, N_date)
    /\ Col(df, N_date) = <<D(2025, 2, 1), Null, D(2025, 1, 15)>>
    /\ [g \in 1..Len(tables.Trends) |-> tables.Trends[g].month]
          = <<D(2025, 1, 1), D(2025, 2, 1), Null>>

\* C17: when Trends is not empty, the first row of Variance is null in
\* each of the ten columns <col>_mom_abs and <col>_mom_pct.
C17_FirstRowNull ==
    (pc = "built" /\ Len(tables.Trends) > 0) =>
        \A c \in 1..Len(MomColumns) :
            /\ tables.Variance[1][MomAbsName[MomColumns[c]]] = FNull
            /\ tables.Variance[1][MomPctName[MomColumns[c]]] = FNull

\* C17 witness: build_tables has returned a Variance table of two rows or
\* more whose first row has a revenue and a null revenue_mom_abs, and whose
\* second row has a revenue_mom_abs.
C17_Witness ==
    /\ pc = "built"
    /\ Len(tables.Variance) >= 2
    /\ tables.Variance[1].revenue # FInt(0)
    /\ tables.Variance[1].revenue_mom_abs = FNull
    /\ tables.Variance[1].margin_mom_pct = FNull
    /\ tables.Variance[2].revenue_mom_abs # FNull

\* The columns Trends carries
TrendsColumns == {"month", "revenue", "cost", "gross_profit", "units", "margin"}

\* C18 (as stated): Variance has the rows and columns of Trends in the same
\* order plus the MoM columns; in every row after the first, <col>_mom_abs
\* is the row's col minus the preceding row's col, and <col>_mom_pct is that
\* difference divided by the preceding row's col when that base is non-zero
\* and non-null.  (Stated on finite and null values: an infinite margin is
\* the subject of C1.)
C18_VarianceLaw ==
    pc = "built" =>
        LET T == tables.Trends
            V == tables.Variance
        IN  /\ Len(V) = Len(T)
            /\ \A i \in 1..Len(T) : \A f \in TrendsColumns : V[i][f] = T[i][f]
            /\ \A i \in 2..Len(T) : \A c \in 1..Len(MomColumns) :
                  LET col  == MomColumns[c]
                      cur  == T[i][col]
                      base == T[i - 1][col]
                      diff == FSub(cur, base)
                  IN  (~FIsInfinite(cur) /\ ~FIsInfinite(base)) =>
                          /\ V[i][MomAbsName[col]] = diff
                          /\ (base.k = "fin" /\ base.num # 0) =>
                                V[i][MomPctName[col]] = FDiv(diff, base)

\* The (month, dimension) pair of each row of the fact table
FactPairs(dimName) ==
    [i \in 1..df.nrows |-> <<FactMonths[i], FactColumn(dimName)[i]>>]

\* Ascending order of two non-null values of one key column
ValueBefore(a, b) ==
    IF a.k = "str" /\ b.k = "str" THEN StrLess(a.s, b.s) ELSE a.n < b.n

\* The law of C19 for the drilldown table T over the dimension dimName
DrilldownLaw(T, dimName) ==
    LET pairs == FactPairs(dimName)
        sum(values, p) ==
            FInt(SumOfNumbers(Restricted(values, [i \in 1..df.nrows |-> pairs[i] = p])))
    IN  /\ Len(T) = Cardinality({pairs[i] : i \in 1..df.nrows})
        /\ {<<T[g].month, T[g].dim>> : g \in 1..Len(T)} = {pairs[i] : i \in 1..df.nrows}
        /\ \A g \in 1..Len(T) :
              /\ T[g].revenue = sum(FactColumn(N_revenue), <<T[g].month, T[g].dim>>)
              /\ T[g].gross_profit = sum(FactGrossProfit, <<T[g].month, T[g].dim>>)
        /\ \A g, h \in 1..Len(T) :
              (g < h /\ T[g].month # Null /\ T[h].month # Null) =>
                  /\ T[g].month.n <= T[h].month.n
                  /\ (T[g].month = T[h].month /\ T[g].dim # Null /\ T[h].dim # Null)
                        => ValueBefore(T[g].dim, T[h].dim)

\* C19: Drilldown_Region (Drilldown_Product) has exactly one row per
\* distinct (month, region) (resp. (month, product)) pair of the fact table,
\* with the null-ignoring sums of revenue and gross_profit of the pair's
\* rows; rows with a null dimension form their own group, with a null
\* dimension value; the rows are sorted by month, then by dimension.
C19_Drilldowns ==
    pc = "built" =>
        /\ DrilldownLaw(tables.Drilldown_Region, N_region)
        /\ DrilldownLaw(tables.Drilldown_Product, N_product)

\* C19 witness: build_tables has returned for three rows with the regions
\* VIC (January), null (February) and NSW (January) in that order:
\* Drilldown_Region is (January, NSW), (January, VIC), (February, null).
C19_Witness ==
    /\ pc = "built"
    /\ HasCol(df, N_region) /\ HasCol(df, N_date)
    /\ Col(df, N_region) = <<Str(<<"V","I","C">>), Null, Str(<<"N","S","W">>)>>
    /\ [g \in 1..Len(tables.Drilldown_Region) |->
           <<tables.Drilldown_Region[g].month, tables.Drilldown_Region[g].dim>>]
          = << <<D(2025, 1, 1), Str(<<"N","S","W">>)>>, <<D(2025, 1, 1), Str(<<"V","I","C">>)>>,
               <<D(2025, 2, 1), Null>> >>

\* The columns build_tables synthesizes when the fact table lacks them
OptionalNames == <<N_cost, N_units, N_region, N_product>>

\* t with every optional column it lacks appended, entirely null
RECURSIVE WithNullColumns(_, _)
WithNullColumns(t, names) ==
    IF names = <<>> THEN t
    ELSE WithNullColumns(
             IF HasCol(t, Head(names)) THEN t
             ELSE [t EXCEPT !.columns = Append(@, Head(names)),
                            !.data = Append(@, [i \in 1..t.nrows |-> Null])],
             Tail(names))

\* C20: on a fact table lacking any of cost, units, region, product,
\* build_tables does not raise for that reason, and it returns the five
\* tables it returns for the same table with each missing column present
\* and entirely null.
C20_MissingDimensionsSynthesized ==
    /\ (pc = "raised" /\ error = "build_tables") => ~HasCol(df, N_revenue)
    /\ pc = "built" =>
          build_tables(WithNullColumns(df, OptionalNames), pctFill)
              = [raised |-> FALSE, tables |-> tables]

\* C20 witness: build_tables has returned for a fact table of two rows or
\* more that has revenue values and lacks cost, units, region and product.
C20_Witness ==
    /\ pc = "built"
    /\ df.nrows >= 2
    /\ \A c \in 1..Len(OptionalNames) : ~HasCol(df, OptionalNames[c])
    /\ tables.Summary[1].value # FInt(0)
    /\ Len(tables.Drilldown_Region) >= 2

\* C21 (as stated): build_tables does not raise for a fact table of zero
\* rows: it returns a Summary with the six metric names, zero sums,
\* rows_loaded = 0 and a null margin, and Trends, Variance,
\* Drilldown_Region and Drilldown_Product without data rows.  (The tables
\* are held as their sequences of rows; the column headers of a table
\* without rows are not part of the state.)
C21_EmptyTableBuilds ==
    (df.nrows = 0 /\ (pc = "built" \/ (pc = "raised" /\ error = "build_tables"))) =>
        /\ pc = "built"
        /\ tables.Summary =
              << [metric |-> "revenue",      value |-> FInt(0)],
                 [metric |-> "cost",         value |-> FInt(0)],
                 [metric |-> "gross_profit", value |-> FInt(0)],
                 [metric |-> "margin",       value |-> FNull],
                 [metric |-> "units",        value |-> FInt(0)],
                 [metric |-> "rows_loaded",  value |-> FInt(0)] >>
        /\ tables.Trends = <<>> /\ tables.Variance = <<>>
        /\ tables.Drilldown_Region = <<>> /\ tables.Drilldown_Product = <<>>

\* The alias table C27 says is applied: the caller's own table alone when
\* it is not empty, the built-in table when it is None or empty
C27_Table == IF aliases.given /\ aliases.map # {} THEN aliases.map ELSE DEFAULT_ALIASES

C27_Name(i) ==
    LET c == snake(raw.columns[i])
    IN  IF \E kv \in C27_Table : kv[1] = c
        THEN (CHOOSE kv \in C27_Table : kv[1] = c)[2]
        ELSE c

\* C27: a non-empty alias table given by the caller replaces the built-in
\* table: only its entries rename columns, and a column whose name only the
\* built-in table knows keeps its name; with None or an empty table every
\* entry of DEFAULT_ALIASES is applied.
C27_SuppliedReplacesDefault ==
    pc = "aliased" =>
        /\ df.columns = [i \in 1..Len(raw.columns) |-> C27_Name(i)]
        /\ (aliases.given /\ aliases.map # {}) =>
              \A i \in 1..Len(raw.columns) :
                  snake(raw.columns[i]) \notin AliasKeys(aliases.map)
                      => df.columns[i] = snake(raw.columns[i])

\* C27 witness: apply_aliases has returned, under the caller's table
\* {sales, date, notes}, a table whose column cogs (an alias of cost in the
\* built-in table) is still named cogs.
C27_Witness ==
    /\ pc = "aliased"
    /\ aliases = CustomAliases
    /\ \E i \in 1..Len(df.columns) :
          /\ df.columns[i] = <<"c","o","g","s">>
          /\ <<df.columns[i], N_cost>> \in DEFAULT_ALIASES

\* The sum of a column of whole numbers over the rows of a KPI table
RECURSIVE TableSum(_, _)
TableSum(T, field) ==
    IF T = <<>> THEN 0
    ELSE Head(T)[field].num + TableSum(Tail(T), field)

\* The rows of a drilldown table that belong to month m
RowsOfMonth(T, m) == SelectSeq(T, LAMBDA row : row.month = m)

\* C28: for revenue, cost, gross_profit and units, the sum of the column
\* over all Trends rows (the null-month row included) equals the Summary
\* value; for every month value, null included, the sums of revenue and of
\* gross_profit over the Drilldown_Region rows of that month, and over the
\* Drilldown_Product rows of that month, equal the revenue and the
\* gross_profit of the Trends row of that month.
C28_TotalsConserved ==
    pc = "built" =>
        LET T == tables.Trends
            metric(name) == (CHOOSE i \in 1..6 : tables.Summary[i].metric = name)
        IN  /\ \A f \in {"revenue", "cost", "gross_profit", "units"} :
                  FInt(TableSum(T, f)) = tables.Summary[metric(f)].value
            /\ \A g \in 1..Len(T) : \A f \in {"revenue", "gross_profit"} :
                  /\ TableSum(RowsOfMonth(tables.Drilldown_Region, T[g].month), f)
                        = T[g][f].num
                  /\ TableSum(RowsOfMonth(tables.Drilldown_Product, T[g].month), f)
                        = T[g][f].num
            /\ \A g \in 1..Len(tables.Drilldown_Region) :
                  \E h \in 1..Len(T) : T[h].month = tables.Drilldown_Region[g].month
            /\ \A g \in 1..Len(tables.Drilldown_Product) :
                  \E h \in 1..Len(T) : T[h].month = tables.Drilldown_Product[g].month

\* C28 witness: build_tables has returned a Trends table with a real month
\* and the null month, the real month split over two regions of which one
\* is null, and a Summary revenue that is not zero.
C28_Witness ==
    /\ pc = "built"
    /\ Len(tables.Trends) = 2
    /\ tables.Trends[1].month # Null /\ tables.Trends[2].month = Null
    /\ tables.Trends[2].revenue # FInt(0)
    /\ Len(RowsOfMonth(tables.Drilldown_Region, tables.Trends[1].month)) = 2
    /\ \E g \in 1..Len(tables.Drilldown_Region) :
          /\ tables.Drilldown_Region[g].dim = Null
          /\ tables.Drilldown_Region[g].revenue # FInt(0)
    /\ tables.Summary[1].value # FInt(0)

\* C29: when a row of the fact table has a null date, the null-month group
\* is the last row of Trends and of Variance, after every real month; if a
\* real month exists, each <col>_mom_abs of the null-month row is that
\* row's col minus the latest real month's col (not null for the four
\* sums); and every real month after the first is differenced against the
\* real month before it, never against the null-month row.
C29_NullMonthLast ==
    (pc = "built" /\ \E i \in 1..df.nrows : FactMonths[i] = Null) =>
        LET T == tables.Trends
            V == tables.Variance
            n == Len(T)
        IN  /\ n >= 1 /\ Len(V) = n
            /\ T[n].month = Null /\ V[n].month = Null
            /\ \A g \in 1..(n - 1) : T[g].month # Null /\ V[g].month # Null
            /\ \A g \in 2..n : \A c \in 1..Len(MomColumns) :
                  LET col == MomColumns[c]
                  IN  /\ V[g][MomAbsName[col]] = FSub(T[g][col], T[g - 1][col])
                      /\ T[g - 1].month # Null
                      /\ col # "margin" => V[g][MomAbsName[col]] # FNull

\* C29 witness: build_tables has returned Trends with two real months and
\* the null month last, and the null-month row of Variance carries a
\* revenue_mom_abs against the second real month.
C29_Witness ==
    /\ pc = "built"
    /\ Len(tables.Variance) = 3
    /\ tables.Variance[3].month = Null
    /\ tables.Variance[2].month # Null
    /\ tables.Variance[3].revenue_mom_abs
          = FSub(tables.Trends[3].revenue, tables.Trends[2].revenue)
    /\ tables.Variance[3].revenue_mom_abs \notin {FNull, FInt(0)}

\* The rows of raw that come from a file
FileRows(file) ==
    {i \in 1..raw.nrows : raw.data[7][i] = Str(file)}

\* The scenario's raw input: the February batch is clean.
C22_Scenario ==
    /\ raw.columns = DemoColumns
    /\ \A i \in FileRows(FebFile) :
          raw.data[1][i] = Str(FebStart) /\ raw.data[3][i] # Null

\* The revenue of a batch as the scenario states it: the Sales($) amounts
\* of the rows of the file that carry the batch's date
RECURSIVE C22_Sum(_)
C22_Sum(rowset) ==
    IF rowset = {} THEN 0
    ELSE LET i == CHOOSE j \in rowset : TRUE
         IN  (IF raw.data[3][i] = Null THEN 0 ELSE raw.data[3][i].n)
             + C22_Sum(rowset \ {i})

C22_Revenue(file, month_start) ==
    C22_Sum({i \in FileRows(file) : raw.data[1][i] = Str(month_start)})

\* What the scenario promises apart from the number of Trends rows
C22_Common ==
    /\ tables.Summary[6] = [metric |-> "rows_loaded",
                            value |-> FInt(Cardinality(FileRows(JanFile))
                                           + Cardinality(FileRows(FebFile)))]
    /\ Len(tables.Trends) >= 2 /\ Len(tables.Variance) = Len(tables.Trends)
    /\ tables.Trends[1].month = D(2025, 1, 1)
    /\ tables.Trends[2].month = D(2025, 2, 1)
    /\ tables.Trends[1].revenue = FInt(C22_Revenue(JanFile, JanStart))
    /\ tables.Trends[2].revenue = FInt(C22_Revenue(FebFile, FebStart))
    /\ \A c \in 1..Len(MomColumns) :
          /\ tables.Variance[1][MomAbsName[MomColumns[c]]] = FNull
          /\ tables.Variance[1][MomPctName[MomColumns[c]]] = FNull
    /\ tables.Variance[2].revenue_mom_abs
          = FInt(C22_Revenue(FebFile, FebStart) - C22_Revenue(JanFile, JanStart))
    /\ \E w \in 1..Len(warnings) : warnings[w] = UnparseableDates(1)

\* C22 as stated: in the round-trip scenario clean and build_tables return,
\* with rows_loaded the number of rows of both batches, a Trends table of
\* exactly two rows (2025-01 then 2025-02), a Variance table whose January
\* row has null MoM columns and whose February revenue_mom_abs is February
\* revenue minus January revenue, and the warning "Rows with unparseable
\* dates: 1".
C22_RoundTripTwoRows ==
    C22_Scenario =>
        /\ pc # "raised"
        /\ pc = "built" => (C22_Common /\ Len(tables.Trends) = 2)

\* C22 amended: the same, but Trends and Variance have three rows: 2025-01,
\* 2025-02 and, last, the null-month row that holds the row with the
\* unparseable date.
C22_RoundTripNullMonth ==
    C22_Scenario =>
        /\ pc # "raised"
        /\ pc = "built" =>
              /\ C22_Common
              /\ Len(tables.Trends) = 3
              /\ tables.Trends[3].month = Null
              /\ tables.Variance[3].month = Null

\* C22 witness: build_tables has returned for a scenario input of
\* MaxBatch January rows and MaxBatch clean February rows, with a February
\* revenue_mom_abs that is not zero.
C22_Witness ==
    /\ pc = "built"
    /\ C22_Scenario
    /\ Cardinality(FileRows(JanFile)) = MaxBatch
    /\ Cardinality(FileRows(FebFile)) = MaxBatch
    /\ tables.Summary[6].value = FInt(2 * MaxBatch)
    /\ Len(tables.Trends) = 3
    /\ tables.Variance[2].revenue_mom_abs \notin {FNull, FInt(0)}
    /\ \E w \in 1..Len(warnings) : warnings[w] = UnparseableDates(1)

C26_Table(given) ==
    IF given.given /\ given.map # {} THEN given.map ELSE DEFAULT_ALIASES

\* An invocation run alone for k stages from its call
RECURSIVE C26_Alone(_, _, _)
C26_Alone(inv, fill, k) ==
    IF k = 0 THEN Invocation(inv.raw, inv.aliases)
    ELSE StageWith(C26_Alone(inv, fill, k - 1), fill, C26_Table(inv.aliases))

\* The first invocation as a record
C26_This ==
    [pc |-> pc, raw |-> raw, aliases |-> aliases, df |-> df,
     warnings |-> warnings, tables |-> tables, error |-> error]

\* The stages an invocation has run
C26_Stages(inv) ==
    CASE inv.pc = "start" -> 0
      [] inv.pc = "standardised" -> 1
      [] inv.pc = "aliased" -> 2
      [] inv.pc = "coerced" -> 3
      [] inv.pc = "cleaned" -> 4
      [] inv.pc = "raised" /\ inv.error = "apply_aliases" -> 2
      [] OTHER -> 5

C26_AsAlone(inv) == inv = C26_Alone(inv, pctFill, C26_Stages(inv))

RowFunctions ==
    {"clean", "build_tables", "to_csv", "write_quality_excel", "write_excel_pack",
     "generate_charts", "write_pdf_report", "write_run_log"}

Invoked == {calls[i] : i \in 1..Len(calls)}

\* The aliases values that are configured and are not a mapping
C23_WrongShape == YamlAliases \ {"absent", "null", "mapping", "empty_mapping"}

\* C23: when config.yaml is a mapping whose aliases value is configured and
\* is not a mapping, resolve_config raises and main returns 2 having called
\* nothing but resolve_config: not read_all, clean or build_tables.
C23_WrongShapeFailsFast ==
    (conf.file = "mapping" /\ conf.aliases \in C23_WrongShape /\ pc # "main") =>
        /\ pc = "returned" /\ exit = "2"
        /\ calls = <<"resolve_config">>

\* C24: when read_all returns an empty table (no files, or no rows), main
\* returns 2 having invoked nothing after read_all; a run that returned 2
\* invoked none of clean, build_tables and the writers; a run that returned
\* 0 invoked clean once, then build_tables once, and after build_tables
\* every writer that is enabled (by its toggle; write_pdf_report by --pdf
\* or --no-pdf when given, else by make_pdf).
C24_EmptyInputStops ==
    LET at(name) == {i \in 1..Len(calls) : calls[i] = name}
        on(toggle) == conf.toggles[toggle] # "false"
        pdf == conf.flag = "pdf" \/ (conf.flag = "none" /\ on("make_pdf"))
        toggleOf == [to_csv |-> "write_cleaned_csv",
                     write_quality_excel |-> "write_quality_report",
                     write_excel_pack |-> "write_excel_pack",
                     generate_charts |-> "write_charts",
                     write_run_log |-> "write_run_log"]
        enabled == {w \in DOMAIN toggleOf : on(toggleOf[w])}
                   \cup (IF pdf THEN {"write_pdf_report"} ELSE {})
    IN  /\ ("read_all" \in Invoked /\ error # "read_all"
              /\ (raw.nrows = 0 \/ raw.columns = <<>>)) =>
                 /\ pc = "returned" /\ exit = "2"
                 /\ calls = <<"resolve_config", "read_all">>
        /\ exit = "2" => Invoked \cap RowFunctions = {}
        /\ exit = "0" =>
              /\ Cardinality(at("clean")) = 1
              /\ Cardinality(at("build_tables")) = 1
              /\ \A i \in at("clean") : \A j \in at("build_tables") : i < j
              /\ \A w \in enabled :
                    \E i \in at(w) : \A j \in at("build_tables") : j < i

\* C24 witness for the empty input: read_all has returned a table with
\* column headers and no rows, and main has returned 2.
C24_Witness ==
    /\ exit = "2"
    /\ calls = <<"resolve_config", "read_all">>
    /\ raw.nrows = 0 /\ Len(raw.columns) > 1

=============================================================================
